---- MODULE Spec2Model ----
(***************************************************************************)
(* A model of the internal-reporting ETL pipeline:                         *)
(*   - SupabaseLoader (etl/loaders/supabase_loader.py) writing six tables   *)
(*     of a Postgres store through upsert / insert / update calls,          *)
(*   - QuickBooksExtractor (etl/extractors/quickbooks_extractor.py) and its *)
(*     OAuth token life cycle,                                              *)
(*   - GitHubExtractor (etl/extractors/github_extractor.py) and its paging, *)
(*   - run_daily_sync (etl/scheduler.py).                                   *)
(* The store and the remote APIs are the environment: what they answer is   *)
(* drawn nondeterministically (transient errors included); what the store   *)
(* enforces (unique natural keys, the payment -> invoice reference) is what *)
(* the loader's calls rely on.                                              *)
(***************************************************************************)
EXTENDS Integers, Sequences, FiniteSets, TLC

VARIABLES
    db,      \* the store: table name -> sequence of rows (position = row identity)
    now,     \* the loader's clock, datetime.now()
    last,    \* outcome of the last load call: arguments, return value, store faults
    qb,      \* the QuickBooksExtractor object: its token fields
    clock,   \* time.time(), in seconds
    idp,     \* the token endpoint: token pairs issued, refresh token last returned
    qbLast,  \* outcome of the last QuickBooksExtractor call
    gh,      \* the GitHubExtractor call in progress: its loop variables
    sync,    \* run_daily_sync: its position and the lists it extracted
    wm,      \* the weekly_metrics table: a sequence of rows
    rep,     \* run_weekly_report: its position, the snapshot in memory
    calc,    \* the last application of a derivation: its argument and value
    con      \* two loaders that run at the same time: the position of each

loaderVars == <<db, now, last>>
qbVars     == <<qb, clock, idp, qbLast>>
reportVars == <<wm, rep, calc, con>>
vars       == <<db, now, last, qb, clock, idp, qbLast, gh, sync, wm, rep, calc, con>>

----------------------------------------------------------------------------
(* Bounds *)

\* number of load calls in one behaviour
MaxLoads == 2

\* number of token pairs the token endpoint issues in one behaviour
MaxIssued == 2

\* the time that passes in one behaviour, in steps of 100 seconds
MaxTicks == 7

\* number of repositories of the organization in a fan-out
MaxRepos == 2

----------------------------------------------------------------------------
(* The store *)

Tables ==
    {"mercury_accounts", "mercury_transactions", "quickbooks_invoices",
     "quickbooks_payments", "github_commits", "github_pull_requests"}

\* The unique constraint of each table: the columns its loader names in
\* on_conflict (Postgres accepts ON CONFLICT only on such a constraint).
Constraint(tbl) ==
    CASE tbl = "mercury_accounts"     -> {"account_id"}
      [] tbl = "mercury_transactions" -> {"transaction_id"}
      [] tbl = "quickbooks_invoices"  -> {"invoice_id"}
      [] tbl = "quickbooks_payments"  -> {"payment_id"}
      [] tbl = "github_commits"       -> {"commit_sha"}
      [] tbl = "github_pull_requests" -> {"pr_number", "repository"}

Proj(r, cols) == [c \in cols |-> r[c]]

Matching(t, r, cols) == {i \in 1..Len(t) : Proj(t[i], cols) = Proj(r, cols)}

\* quickbooks_payments.invoice_id references quickbooks_invoices.invoice_id
ForeignKeyOk(d, tbl, r) ==
    tbl = "quickbooks_payments" =>
        \E i \in 1..Len(d["quickbooks_invoices"]) :
            d["quickbooks_invoices"][i].invoice_id = r.invoice_id

Unique(t, cols) ==
    \A i, j \in 1..Len(t) : Proj(t[i], cols) = Proj(t[j], cols) => i = j

StoreOk(d)        == [ok |-> TRUE, err |-> "", db |-> d]
StoreError(d, e)  == [ok |-> FALSE, err |-> e, db |-> d]

\* every row of t at a position in S replaced by r
RECURSIVE SetRows(_, _, _)
SetRows(t, S, r) ==
    IF S = {} THEN t
    ELSE LET i == CHOOSE j \in S : TRUE
         IN  SetRows([t EXCEPT ![i] = r], S \ {i}, r)

\* mutant: an insert in place of the insert-or-update
UpsertRow_AlwaysAppend(t, r, cols) == Append(t, r)

UpsertRow(t, r, cols) ==
    IF Matching(t, r, cols) # {}
    THEN SetRows(t, Matching(t, r, cols), r)
    ELSE Append(t, r)

\* mutant: the table is replaced by the batch
UpsertRows_Replace(t, rows, cols) == rows

RECURSIVE UpsertRows(_, _, _)
UpsertRows(t, rows, cols) ==
    IF rows = <<>> THEN t
    ELSE UpsertRows(UpsertRow(t, Head(rows), cols), Tail(rows), cols)

\* table(tbl).upsert(rows, on_conflict=cols).execute(): one statement, all or nothing
StoreUpsert(d, tbl, rows, cols) ==
    IF cols # Constraint(tbl)
    THEN StoreError(d, "no unique constraint matching the on conflict specification")
    ELSE IF ~Unique(rows, cols)
    THEN StoreError(d, "on conflict do update command cannot affect row a second time")
    ELSE IF \E i \in 1..Len(rows) : ~ForeignKeyOk(d, tbl, rows[i])
    THEN StoreError(d, "violates foreign key constraint")
    ELSE StoreOk([d EXCEPT ![tbl] = UpsertRows(d[tbl], rows, cols)])

\* mutant: the insert into a table without its unique constraint
StoreInsert_Unchecked(d, tbl, r) ==
    IF ~ForeignKeyOk(d, tbl, r)
    THEN StoreError(d, "violates foreign key constraint")
    ELSE StoreOk([d EXCEPT ![tbl] = Append(d[tbl], r)])

\* table(tbl).insert(r).execute()
StoreInsert(d, tbl, r) ==
    IF Matching(d[tbl], r, Constraint(tbl)) # {}
    THEN StoreError(d, "duplicate key value violates unique constraint")
    ELSE IF ~ForeignKeyOk(d, tbl, r)
    THEN StoreError(d, "violates foreign key constraint")
    ELSE StoreOk([d EXCEPT ![tbl] = Append(d[tbl], r)])

UpdateRows(t, r, filter) == SetRows(t, Matching(t, r, filter), r)

\* table(tbl).update(r).eq(c, r[c]) for c in filter .execute(): every matching
\* row takes r's columns; matching no row is not an error
StoreUpdate(d, tbl, r, filter) ==
    IF ~Unique(UpdateRows(d[tbl], r, filter), Constraint(tbl))
    THEN StoreError(d, "duplicate key value violates unique constraint")
    ELSE StoreOk([d EXCEPT ![tbl] = UpdateRows(d[tbl], r, filter)])

\* a store call that may also fail for a reason of the environment
\* (network, timeout, service error)
Call(fault, d, result) ==
    IF fault THEN StoreError(d, "connection timed out") ELSE result

----------------------------------------------------------------------------
(* Canonical records handed to the loader *)

Account(id, bal)     == [account_id |-> id, balance |-> bal]
Transaction(id, amt) == [transaction_id |-> id, amount |-> amt]
Invoice(id, bal)     == [invoice_id |-> id, balance |-> bal]
Payment(id, inv, amt) == [payment_id |-> id, invoice_id |-> inv, amount |-> amt]
Commit(sha, repo)    == [commit_sha |-> sha, repository |-> repo]
PullRequest(n, repo, title) == [pr_number |-> n, repository |-> repo, title |-> title]

AccountRecs     == {Account(1, 10), Account(1, 20), Account(2, 10)}
TransactionRecs == {Transaction(1, 5), Transaction(1, 7)}
InvoiceRecs     == {Invoice(1, 100), Invoice(2, 100)}
PaymentRecs     == {Payment(1, 1, 50), Payment(1, 1, 60), Payment(2, 2, 50)}
CommitRecs      == {Commit(1, "a"), Commit(1, "b")}
PullRequestRecs == {PullRequest(1, "a", "t1"), PullRequest(1, "a", "t2"),
                    PullRequest(1, "b", "t1")}

\* the batches over R: empty, one record, two different records in either order
Batches(R) ==
    {<<>>} \cup {<<r>> : r \in R}
           \cup UNION {{<<r, s>> : s \in R \ {r}} : r \in R}

\* mutant: the stamp is not the time of the load
Stamp_Stale(batch, t) ==
    [i \in 1..Len(batch) |->
        [f \in DOMAIN batch[i] \cup {"synced_at"} |->
            IF f = "synced_at" THEN 0 ELSE batch[i][f]]]

\* for record in batch: record["synced_at"] = datetime.now().isoformat()
Stamp(batch, t) ==
    [i \in 1..Len(batch) |->
        [f \in DOMAIN batch[i] \cup {"synced_at"} |->
            IF f = "synced_at" THEN t ELSE batch[i][f]]]

----------------------------------------------------------------------------
(* SupabaseLoader *)

EmptyStore == [tbl \in Tables |-> <<>>]

\* what a load call did: its return value, or that it raised
Outcome(d, returned, raised, skipped, path, updCalls) ==
    [db |-> d, returned |-> returned, raised |-> raised, skipped |-> skipped,
     path |-> path, updCalls |-> updCalls]

\* load_mercury_accounts, load_mercury_transactions, load_quickbooks_invoices,
\* load_github_commits: stamp, one bulk upsert, return len(batch); an
\* exception of the upsert is not caught
BulkLoad(d, tbl, batch, cols, t, fault) ==
    IF batch = <<>> THEN Outcome(d, 0, FALSE, 0, "empty", {})
    ELSE LET res == Call(fault, d, StoreUpsert(d, tbl, Stamp(batch, t), cols))
         IN  IF res.ok
             THEN Outcome(res.db, Len(batch), FALSE, 0, "bulk", {})
             ELSE Outcome(d, 0, TRUE, 0, "bulk", {})

\* mutant: the missing-invoice error is not recognised
IsForeignKeyError_Never(err) == FALSE

\* "foreign key constraint" in error_msg or "violates foreign key" in error_msg
IsForeignKeyError(err) == err = "violates foreign key constraint"

\* one iteration of the per-payment loop: upsert [payment]; count it as loaded,
\* as skipped (missing invoice), or only print the error
PaymentStep(acc, r, fault) ==
    LET res == Call(fault, acc.db,
                    StoreUpsert(acc.db, "quickbooks_payments", <<r>>, {"payment_id"}))
    IN  IF res.ok
        THEN [acc EXCEPT !.db = res.db, !.loaded = @ + 1]
        ELSE IF IsForeignKeyError(res.err)
        THEN [acc EXCEPT !.skipped = @ + 1]
        ELSE acc

RECURSIVE PaymentLoop(_, _, _, _)
PaymentLoop(acc, rows, i, faults) ==
    IF i > Len(rows) THEN acc
    ELSE PaymentLoop(PaymentStep(acc, rows[i], i \in faults), rows, i + 1, faults)

\* load_quickbooks_payments
PaymentsLoad(d, batch, t, faults) ==
    IF batch = <<>> THEN Outcome(d, 0, FALSE, 0, "empty", {})
    ELSE LET acc == PaymentLoop([db |-> d, loaded |-> 0, skipped |-> 0],
                                Stamp(batch, t), 1, faults)
         IN  Outcome(acc.db, acc.loaded, FALSE, acc.skipped, "each", {})

\* mutant: the update is scoped by the number alone
UpdateScope_NumberOnly == {"pr_number"}

\* the columns the fallback's update is scoped by: .eq("pr_number").eq("repository")
UpdateScope == {"pr_number", "repository"}

\* one iteration of the fallback loop: insert, else update scoped by the
\* composite key, else skip; an update that raises nothing counts as loaded
PullRequestStep(acc, r, i, insFault, updFault) ==
    LET ins == Call(insFault, acc.db, StoreInsert(acc.db, "github_pull_requests", r))
        upd == Call(updFault, acc.db,
                    StoreUpdate(acc.db, "github_pull_requests", r, UpdateScope))
    IN  IF ins.ok
        THEN [acc EXCEPT !.db = ins.db, !.loaded = @ + 1]
        ELSE IF upd.ok
        THEN [acc EXCEPT !.db = upd.db, !.loaded = @ + 1,
                         !.updCalls = @ \cup {i}]
        ELSE [acc EXCEPT !.updCalls = @ \cup {i}]

RECURSIVE PullRequestLoop(_, _, _, _)
PullRequestLoop(acc, rows, i, faults) ==
    IF i > Len(rows) THEN acc
    ELSE PullRequestLoop(
            PullRequestStep(acc, rows[i], i, i \in faults.first, i \in faults.second),
            rows, i + 1, faults)

\* load_github_pull_requests
PullRequestsLoad(d, batch, t, faults) ==
    IF batch = <<>> THEN Outcome(d, 0, FALSE, 0, "empty", {})
    ELSE LET bulk == Call(faults.bulk, d,
                          StoreUpsert(d, "github_pull_requests", Stamp(batch, t),
                                      {"pr_number", "repository"}))
             acc  == PullRequestLoop([db |-> d, loaded |-> 0, updCalls |-> {}],
                                     Stamp(batch, t), 1, faults)
         IN  IF bulk.ok
             THEN Outcome(bulk.db, Len(batch), FALSE, 0, "bulk", {})
             ELSE Outcome(acc.db, acc.loaded, FALSE, 0, "fallback", acc.updCalls)

\* store faults of the environment during one load call: of the bulk call, of
\* the i-th first per-record call (upsert or insert), of the i-th update
NoFaults == [bulk |-> FALSE, first |-> {}, second |-> {}]

\* the calls of a loop that may fault: any of a short batch, the first or the
\* last of a long one
Indexes(batch) ==
    IF Len(batch) <= 2 THEN SUBSET (1..Len(batch))
    ELSE {{}, {1}, {Len(batch)}}

NoCall ==
    [op |-> "none", batch |-> <<>>, stamp |-> 0, faults |-> NoFaults,
     returned |-> 0, raised |-> FALSE, skipped |-> 0, path |-> "empty",
     updCalls |-> {}, reload |-> FALSE]

\* the record of a call; reload: it repeats the call before it (same operation,
\* same batch) and the store faulted in neither
Returned(op, batch, faults, out) ==
    [op |-> op, batch |-> batch, stamp |-> now, faults |-> faults,
     returned |-> out.returned, raised |-> out.raised, skipped |-> out.skipped,
     path |-> out.path, updCalls |-> out.updCalls,
     reload |-> /\ last.op = op /\ last.batch = batch
                /\ last.faults = NoFaults /\ faults = NoFaults]

Finish(op, batch, faults, out) ==
    /\ db' = out.db
    /\ last' = Returned(op, batch, faults, out)
    /\ now' = now + 1

BulkFaults(batch) ==
    {[NoFaults EXCEPT !.bulk = f] : f \in IF batch = <<>> THEN {FALSE} ELSE BOOLEAN}

\* loader.load_mercury_accounts(batch)
LoadMercuryAccountsOf(batch) ==
    \E faults \in BulkFaults(batch) :
        Finish("load_mercury_accounts", batch, faults,
               BulkLoad(db, "mercury_accounts", batch, {"account_id"}, now,
                        faults.bulk))

\* loader.load_mercury_transactions(batch)
LoadMercuryTransactionsOf(batch) ==
    \E faults \in BulkFaults(batch) :
        Finish("load_mercury_transactions", batch, faults,
               BulkLoad(db, "mercury_transactions", batch, {"transaction_id"}, now,
                        faults.bulk))

\* loader.load_quickbooks_invoices(batch)
LoadQuickbooksInvoicesOf(batch) ==
    \E faults \in BulkFaults(batch) :
        Finish("load_quickbooks_invoices", batch, faults,
               BulkLoad(db, "quickbooks_invoices", batch, {"invoice_id"}, now,
                        faults.bulk))

\* loader.load_github_commits(batch)
LoadGithubCommitsOf(batch) ==
    \E faults \in BulkFaults(batch) :
        Finish("load_github_commits", batch, faults,
               BulkLoad(db, "github_commits", batch, {"commit_sha"}, now,
                        faults.bulk))

\* loader.load_quickbooks_payments(batch)
LoadQuickbooksPaymentsOf(batch) ==
    \E first \in Indexes(batch) :
        Finish("load_quickbooks_payments", batch, [NoFaults EXCEPT !.first = first],
               PaymentsLoad(db, batch, now, first))

\* loader.load_github_pull_requests(batch)
LoadGithubPullRequestsOf(batch) ==
    \E bulk \in BOOLEAN, first \in Indexes(batch), second \in Indexes(batch) :
        LET faults == [bulk |-> bulk, first |-> first, second |-> second]
            out    == PullRequestsLoad(db, batch, now, faults)
        IN  \* a fault names a call that was made
            /\ batch = <<>> => ~bulk
            /\ out.path # "fallback" => first = {} /\ second = {}
            /\ second \subseteq out.updCalls
            /\ Finish("load_github_pull_requests", batch, faults, out)

\* the batch of the specification's example: ten payments, the last three of
\* which reference an invoice (2) that may be missing
ExamplePayments ==
    [i \in 1..10 |-> Payment(i, IF i <= 7 THEN 1 ELSE 2, 50)]

LoadMercuryAccounts ==
    \E batch \in Batches(AccountRecs) : LoadMercuryAccountsOf(batch)

LoadMercuryTransactions ==
    \E batch \in Batches(TransactionRecs) : LoadMercuryTransactionsOf(batch)

LoadQuickbooksInvoices ==
    \E batch \in Batches(InvoiceRecs) : LoadQuickbooksInvoicesOf(batch)

LoadQuickbooksPayments ==
    \E batch \in Batches(PaymentRecs) \cup {ExamplePayments} :
        LoadQuickbooksPaymentsOf(batch)

LoadGithubCommits ==
    \E batch \in Batches(CommitRecs) : LoadGithubCommitsOf(batch)

LoadGithubPullRequests ==
    \E batch \in Batches(PullRequestRecs) : LoadGithubPullRequestsOf(batch)

\* the store as earlier runs may have left it
InitStores ==
    {EmptyStore,
     [EmptyStore EXCEPT !["quickbooks_invoices"] = Stamp(<<Invoice(1, 100)>>, 0)]}

InitLoader ==
    /\ db \in InitStores
    /\ now = 1
    /\ last = NoCall

----------------------------------------------------------------------------
(* QuickBooksExtractor *)

\* self.token_expires_at = None, self.access_token = None
None == -1

\* "expires in less than 5 minutes": token_expires_at - 300
SafetyMargin == 300

\* the refresh token of the configuration (Config.QUICKBOOKS_REFRESH_TOKEN)
ConfigRefreshToken == 0

ExpiresIn == {400, 600}
Ticks     == {100, 200}

\* The answer of the token endpoint to a refresh request. A 200 body is
\* described by the first field the code reads and does not find
\* (access_token, refresh_token, expires_in, in that order), "ok" when it
\* finds all three; a 200 body may repeat the refresh token it was sent or
\* carry a new one.
RefreshResponses(sent) ==
    {[kind |-> k, access |-> 0, refresh |-> sent, expires_in |-> 0] :
        k \in {"http_error", "network_error", "no_access"}}
    \cup
    (IF idp.issued < MaxIssued
     THEN {[kind |-> k, access |-> idp.issued + 1, refresh |-> r, expires_in |-> e] :
              k \in {"ok", "no_refresh", "no_expires"},
              r \in {sent, idp.issued + 1},
              e \in ExpiresIn}
     ELSE {})

NoResponse == [kind |-> "unused", access |-> 0, refresh |-> 0, expires_in |-> 0]

\* the token endpoint after it answered: pairs issued, and the refresh token of
\* the last body that carried one after an access token
Issue(resp) ==
    [issued |-> IF resp.kind \in {"ok", "no_refresh", "no_expires"}
                THEN idp.issued + 1 ELSE idp.issued,
     latest |-> IF resp.kind \in {"ok", "no_expires"}
                THEN resp.refresh ELSE idp.latest]

\* mutant: the refresh token of the answer is not kept
RefreshAccessToken_KeepsOldRefresh(q, t, resp) ==
    IF resp.kind = "ok"
    THEN [q |-> [q EXCEPT !.access_token = resp.access,
                          !.token_expires_at = t + resp.expires_in],
          raised |-> FALSE]
    ELSE [q |-> q, raised |-> TRUE]

\* _refresh_access_token: the fields are assigned one by one as they are read
\* from the 200 body; every failure is re-raised
RefreshAccessToken(q, t, resp) ==
    CASE resp.kind = "ok" ->
            [q |-> [q EXCEPT !.access_token = resp.access,
                             !.refresh_token = resp.refresh,
                             !.token_expires_at = t + resp.expires_in],
             raised |-> FALSE]
      [] resp.kind = "no_expires" ->
            [q |-> [q EXCEPT !.access_token = resp.access,
                             !.refresh_token = resp.refresh],
             raised |-> TRUE]
      [] resp.kind = "no_refresh" ->
            [q |-> [q EXCEPT !.access_token = resp.access], raised |-> TRUE]
      [] OTHER -> [q |-> q, raised |-> TRUE]

\* mutant: refresh only once the token has expired
NeedsRefresh_WhenExpired(q, t) ==
    q.token_expires_at # None /\ t > q.token_expires_at

\* the condition of _ensure_valid_token
NeedsRefresh(q, t) ==
    q.token_expires_at # None /\ t > q.token_expires_at - SafetyMargin

\* _ensure_valid_token
EnsureValidToken(q, t, resp) ==
    IF NeedsRefresh(q, t)
    THEN [q      |-> RefreshAccessToken(q, t, resp).q,
          raised |-> RefreshAccessToken(q, t, resp).raised,
          tried  |-> TRUE]
    ELSE [q |-> q, raised |-> FALSE, tried |-> FALSE]

\* The answer of the API to a query: a 200 body with the canonical form of its
\* entities, a 200 body without QueryResponse, a 200 body whose entities lack a
\* field the transformation reads, a non-200 status, or no answer in 10 seconds.
ApiResponses(payloads) ==
    {[kind |-> "ok", payload |-> p] : p \in payloads}
    \cup {[kind |-> k, payload |-> <<>>] :
            k \in {"http_error", "timeout", "no_query_response", "malformed"}}

NoApi == [kind |-> "unused", payload |-> <<>>]

\* _make_request: the pre-call check, then the GET with the access token held;
\* an exception of either is not caught here
MakeRequest(q, t, resp, api) ==
    LET e == EnsureValidToken(q, t, resp)
    IN  [q |-> e.q,
         tried |-> e.tried,
         refreshed |-> e.tried /\ ~e.raised,
         sent |-> ~e.raised,
         sentAccess |-> IF e.raised THEN None ELSE e.q.access_token,
         raised |-> e.raised \/ api.kind = "timeout",
         json |-> IF ~e.raised /\ api.kind \in {"ok", "no_query_response", "malformed"}
                  THEN api.kind ELSE "empty"]

\* get_invoices, get_payments, get_company_info: without a realm_id no request
\* is made; every exception of the request or of the transformation is caught
\* and an empty result returned
DataCall(q, t, resp, api) ==
    IF ~q.realm
    THEN [q |-> q, tried |-> FALSE, refreshed |-> FALSE, sent |-> FALSE,
          sentAccess |-> None, raised |-> FALSE, result |-> <<>>]
    ELSE LET m == MakeRequest(q, t, resp, api)
         IN  [q |-> m.q, tried |-> m.tried, refreshed |-> m.refreshed,
              sent |-> m.sent, sentAccess |-> m.sentAccess,
              raised |-> FALSE,
              result |-> IF ~m.raised /\ m.json = "ok" THEN api.payload ELSE <<>>]

NoQBCall ==
    [op |-> "none", raised |-> FALSE, result |-> <<>>, tried |-> FALSE,
     refreshed |-> FALSE, refreshSent |-> None, latest |-> None, sent |-> FALSE,
     sentAccess |-> None, remaining |-> 0, timeout |-> FALSE]

\* QuickBooksExtractor(client_id, client_secret, refresh_token, realm_id):
\* the constructor refreshes once; a failure leaves no object
QBConstruct ==
    /\ qb.state = "none"
    /\ \E resp \in RefreshResponses(ConfigRefreshToken) :
        LET r == RefreshAccessToken(qb, clock, resp)
        IN  /\ qb' = [r.q EXCEPT !.state = IF r.raised THEN "failed" ELSE "ready"]
            /\ idp' = Issue(resp)
            /\ qbLast' = [NoQBCall EXCEPT !.op = "init", !.raised = r.raised,
                              !.tried = TRUE, !.refreshed = ~r.raised,
                              !.refreshSent = qb.refresh_token,
                              !.latest = idp.latest]
    /\ UNCHANGED clock

\* one of the three data calls on a constructed extractor; each input that the
\* call does not use is fixed
QBCall(op, payloads) ==
    /\ qb.state = "ready"
    /\ \E resp \in RefreshResponses(qb.refresh_token) \cup {NoResponse},
          api \in ApiResponses(payloads) \cup {NoApi} :
        LET c == DataCall(qb, clock, resp, api)
        IN  /\ (resp = NoResponse) = ~c.tried
            /\ (api = NoApi) = ~c.sent
            /\ qb' = c.q
            /\ idp' = IF c.tried THEN Issue(resp) ELSE idp
            /\ qbLast' = [op |-> op, raised |-> c.raised, result |-> c.result,
                          tried |-> c.tried, refreshed |-> c.refreshed,
                          refreshSent |-> IF c.tried THEN qb.refresh_token ELSE None,
                          latest |-> IF c.tried THEN idp.latest ELSE None,
                          sent |-> c.sent, sentAccess |-> c.sentAccess,
                          remaining |-> qb.token_expires_at - clock,
                          timeout |-> c.sent /\ api.kind = "timeout"]
    /\ UNCHANGED clock

InvoicePayloads == {<<>>, <<Invoice(1, 100)>>, <<Invoice(1, 100), Invoice(2, 100)>>}
PaymentPayloads == {<<>>, <<Payment(1, 1, 50)>>, <<Payment(1, 1, 50), Payment(2, 2, 50)>>}
CompanyPayloads == {<<[name |-> "Acme", legal_name |-> "Acme Inc", country |-> "US"]>>}

QBGetInvoices    == QBCall("get_invoices", InvoicePayloads)
QBGetPayments    == QBCall("get_payments", PaymentPayloads)
QBGetCompanyInfo == QBCall("get_company_info", CompanyPayloads)

\* time passes between calls
QBTick ==
    /\ \E d \in Ticks : clock + d <= 100 * MaxTicks /\ clock' = clock + d
    /\ UNCHANGED <<qb, idp, qbLast>>

InitQB ==
    /\ qb \in {[state |-> "none", realm |-> r, access_token |-> None,
                refresh_token |-> ConfigRefreshToken, token_expires_at |-> None] :
                    r \in BOOLEAN}
    /\ clock = 0
    /\ idp = [issued |-> 0, latest |-> ConfigRefreshToken]
    /\ qbLast = NoQBCall

----------------------------------------------------------------------------
(* GitHubExtractor *)

\* while page <= 3 (get_commits, get_pull_requests)
ItemPages == 3

\* while page <= 10 (get_org_repos)
RepoPages == 10

\* mutant: a loop without a ceiling
WithinCeiling_Unbounded(page, ceiling) == TRUE

\* the loop condition, while page <= ceiling
WithinCeiling(page, ceiling) == page <= ceiling

\* The answer of the server to one request: a 200 with a non-empty page, a
\* 200 with an empty page, a 404, another non-200 status, no answer within 10
\* seconds, or a 200 whose entries lack a field the code reads. A page of pull
\* requests may hold only pull requests created before the window.
RepoAnswers   == {"page", "empty", "error", "timeout", "malformed"}
CommitAnswers == {"page", "empty", "not_found", "error", "timeout", "malformed"}
PullAnswers   == CommitAnswers \cup {"old_page"}

SingleOps == {"get_commits", "get_pull_requests"}
FanOutOps == {"get_all_commits", "get_all_pull_requests"}
CommitOps == {"get_commits", "get_all_commits"}

\* the name of the repository listed on page p, one repository a page
RepoName(p) == p

\* the canonical records of page p of a repository, one entry a page
PageItems(op, repo, p, ans) ==
    IF ans = "old_page" THEN <<>>
    ELSE IF op \in CommitOps THEN <<Commit(<<repo, p>>, repo)>>
    ELSE <<PullRequest(p, repo, "t")>>

\* the answers on which the loop breaks: a non-200 status, an empty page
Breaks(ans) == ans \in {"empty", "not_found", "error"}

\* the answers on which the call returns [] from its except clause
Raises(ans) == ans \in {"timeout", "malformed"}

\* One iteration of the loop of get_commits / get_pull_requests on the loop
\* variables f = [page, items]; returned says whether the call has returned
\* and result what it returned.
FetchStep(op, repo, f, ans) ==
    IF Raises(ans) THEN [page |-> f.page, items |-> f.items,
                         returned |-> TRUE, result |-> <<>>]
    ELSE IF Breaks(ans) THEN [page |-> f.page, items |-> f.items,
                              returned |-> TRUE, result |-> f.items]
    ELSE LET items == f.items \o PageItems(op, repo, f.page, ans)
         IN  [page |-> f.page + 1, items |-> items,
              returned |-> ~WithinCeiling(f.page + 1, ItemPages),
              result |-> items]

\* One iteration of the loop of get_org_repos on f = [page, items]: the
\* organization endpoint, the user endpoint when the first status is not 200.
ReposStep(f, first, second) ==
    LET ans == IF first = "error" THEN second ELSE first
    IN  IF Raises(ans) THEN [page |-> f.page, items |-> f.items,
                             returned |-> TRUE, result |-> <<>>]
        ELSE IF Breaks(ans) THEN [page |-> f.page, items |-> f.items,
                                  returned |-> TRUE, result |-> f.items]
        ELSE LET items == Append(f.items, RepoName(f.page))
             IN  [page |-> f.page + 1, items |-> items,
                  returned |-> ~WithinCeiling(f.page + 1, RepoPages),
                  result |-> items]

\* mutant: the result of a repository replaces the results before it
Extend_Assign(all, r) == r

\* all_commits.extend(repo_commits)
Extend(all, r) == all \o r

\* no call in progress. Beside the loop variables (page, repos, idx, items,
\* all) the record keeps what the call did: the iterations of the listing
\* loop, the requests of the fetch of one repository, the answer to the
\* previous request of the loop in progress, whether a request followed an
\* empty page, and for a fan-out the repositories fetched, the result of each,
\* and those whose first answer was a 404.
GHIdle ==
    [op |-> "none", phase |-> "idle", page |-> 0, repos |-> <<>>, idx |-> 0,
     items |-> <<>>, all |-> <<>>, result |-> <<>>,
     requests |-> 0, iters |-> 0, prev |-> "none", afterEmpty |-> FALSE,
     fetched |-> <<>>, per |-> <<>>, missing |-> {}]

\* github.get_org_repos(), github.get_all_commits(),
\* github.get_all_pull_requests(): each starts with the repository listing
GHStartRepos ==
    /\ gh.phase = "idle"
    /\ \E op \in {"get_org_repos"} \cup FanOutOps :
        gh' = [GHIdle EXCEPT !.op = op, !.phase = "repos", !.page = 1]

\* github.get_commits(repo), github.get_pull_requests(repo)
GHStartItems ==
    /\ gh.phase = "idle"
    /\ \E op \in SingleOps :
        gh' = [GHIdle EXCEPT !.op = op, !.phase = "items", !.page = 1,
                             !.repos = <<RepoName(1)>>, !.idx = 1]

\* the fan-out after the fetch of the repository at idx returned r
AfterFetch(g, r) ==
    LET all == Extend(g.all, r)
        h   == [g EXCEPT !.all = all, !.per = Append(g.per, r),
                         !.fetched = Append(g.fetched, g.repos[g.idx])]
    IN  IF g.idx < Len(g.repos)
        THEN [h EXCEPT !.idx = g.idx + 1, !.page = 1, !.items = <<>>,
                       !.requests = 0, !.prev = "none"]
        ELSE [h EXCEPT !.phase = "done", !.result = all]

\* one iteration of the listing loop
GHReposPage ==
    /\ gh.phase = "repos"
    /\ \E first \in RepoAnswers, second \in RepoAnswers \cup {"unused"} :
        LET st == ReposStep([page |-> gh.page, items |-> gh.repos], first, second)
            g  == [gh EXCEPT !.page = st.page, !.repos = st.items,
                             !.iters = gh.iters + 1,
                             !.prev = IF first = "error" THEN second ELSE first,
                             !.afterEmpty = gh.afterEmpty \/ gh.prev = "empty"]
        IN  /\ (second = "unused") = (first # "error")
            \* the organization of a fan-out has at most MaxRepos repositories
            /\ (gh.op \in FanOutOps /\ Len(gh.repos) >= MaxRepos) =>
                   "page" \notin {first, second}
            /\ gh' = IF ~st.returned THEN g
                     ELSE IF gh.op = "get_org_repos" \/ st.result = <<>>
                     THEN [g EXCEPT !.phase = "done", !.repos = st.result,
                                    !.result = IF gh.op = "get_org_repos"
                                               THEN st.result ELSE <<>>]
                     ELSE [g EXCEPT !.phase = "items", !.repos = st.result,
                                    !.idx = 1, !.page = 1, !.items = <<>>,
                                    !.requests = 0, !.prev = "none"]

\* one iteration of the loop of get_commits / get_pull_requests
GHItemsPage ==
    /\ gh.phase = "items"
    /\ \E ans \in IF gh.op \in CommitOps THEN CommitAnswers ELSE PullAnswers :
        LET repo == gh.repos[gh.idx]
            st == FetchStep(gh.op, repo, [page |-> gh.page, items |-> gh.items], ans)
            g  == [gh EXCEPT !.page = st.page, !.items = st.items,
                             !.requests = gh.requests + 1,
                             !.prev = ans,
                             !.afterEmpty = gh.afterEmpty \/ gh.prev = "empty",
                             !.missing = IF gh.page = 1 /\ ans = "not_found"
                                         THEN gh.missing \cup {gh.idx}
                                         ELSE gh.missing]
        IN  gh' = IF ~st.returned THEN g
                  ELSE IF gh.op \in SingleOps
                  THEN [g EXCEPT !.phase = "done", !.result = st.result]
                  ELSE AfterFetch(g, st.result)

\* the caller takes the result
GHReturn ==
    /\ gh.phase = "done"
    /\ gh' = GHIdle

InitGH == gh = GHIdle

----------------------------------------------------------------------------
(* run_daily_sync *)

\* mutant: the payments are loaded before the invoices
Steps_PaymentsFirst ==
    <<"QuickBooksExtractor", "get_accounts", "get_transactions", "get_invoices",
      "get_payments", "get_commits", "get_pull_requests",
      "load_mercury_accounts", "load_mercury_transactions",
      "load_quickbooks_payments", "load_quickbooks_invoices",
      "load_github_commits", "load_github_pull_requests">>

\* the statements of run_daily_sync that can fail or that produce data, in
\* program order
Steps ==
    <<"QuickBooksExtractor", "get_accounts", "get_transactions", "get_invoices",
      "get_payments", "get_commits", "get_pull_requests",
      "load_mercury_accounts", "load_mercury_transactions",
      "load_quickbooks_invoices", "load_quickbooks_payments",
      "load_github_commits", "load_github_pull_requests">>

\* the statement after step, "done" after the last
After(step) ==
    LET i == CHOOSE j \in 1..Len(Steps) : Steps[j] = step
    IN  IF i = Len(Steps) THEN "done" ELSE Steps[i + 1]

\* the run after step raised or returned
Advance(step, raised) ==
    IF raised
    THEN [sync EXCEPT !.pc = "raised", !.raisedIn = step]
    ELSE [sync EXCEPT !.pc = After(step)]

\* The answer of the Mercury API to one request: a 200 with the key the call
\* reads and well-formed entries, a non-200 status, no answer within 10
\* seconds, a 200 without the key, or a 200 whose entries cannot be converted.
MercuryAnswers == {"ok", "http_error", "timeout", "no_key", "malformed"}

\* mutant: an exception of the request is not caught
MercuryMakeRequest_Uncaught(ans) == ans

\* MercuryExtractor._make_request: {} for a non-200 status and for every
\* exception of the request
MercuryMakeRequest(ans) ==
    IF ans \in {"http_error", "timeout"} THEN "empty" ELSE ans

\* MercuryExtractor.get_accounts: the canonical records of the body, [] when
\* the body is empty or lacks "accounts" and when the conversion raises;
\* raised when an exception leaves the call
GetAccounts(ans, payload) ==
    [result |-> IF MercuryMakeRequest(ans) = "ok" THEN payload ELSE <<>>,
     raised |-> MercuryMakeRequest(ans) = "timeout"]

\* MercuryExtractor.get_transactions: as get_accounts, an entry that cannot be
\* converted being skipped
GetTransactions(ans, payload) ==
    [result |-> IF MercuryMakeRequest(ans) = "ok" THEN payload ELSE <<>>,
     raised |-> MercuryMakeRequest(ans) = "timeout"]

MercuryAccountLists     == {<<>>, <<Account(1, 10)>>}
MercuryTransactionLists == {<<>>, <<Transaction(1, 5)>>}

\* get_commits / get_pull_requests as a function of the answers to its
\* requests, page after page
RECURSIVE RunItems(_, _, _, _)
RunItems(op, repo, f, answers) ==
    LET st == FetchStep(op, repo, f, Head(answers))
    IN  IF st.returned \/ Len(answers) = 1 THEN st
        ELSE RunItems(op, repo, [page |-> st.page, items |-> st.items],
                      Tail(answers))

GetItems(op, repo, answers) ==
    RunItems(op, repo, [page |-> 1, items |-> <<>>], answers)

\* get_org_repos as a function of the answers to its requests, each iteration
\* a pair: the organization endpoint, the user endpoint
RECURSIVE RunRepos(_, _)
RunRepos(f, answers) ==
    LET st == ReposStep(f, Head(answers)[1], Head(answers)[2])
    IN  IF st.returned \/ Len(answers) = 1 THEN st
        ELSE RunRepos([page |-> st.page, items |-> st.items], Tail(answers))

GetOrgRepos(answers) == RunRepos([page |-> 1, items |-> <<>>], answers)

\* get_all_commits / get_all_pull_requests: the loop over the repositories,
\* scripts[i] the answers to the requests for the i-th repository
RECURSIVE FanOut(_, _, _, _)
FanOut(op, repos, scripts, all) ==
    IF repos = <<>> THEN all
    ELSE FanOut(op, Tail(repos), Tail(scripts),
                Extend(all, GetItems(op, Head(repos), Head(scripts)).result))

\* the answers a call of the run meets: each sequence ends with the answer
\* that makes the call return
ItemScripts ==
    {<<"empty">>, <<"page", "empty">>, <<"timeout">>, <<"page", "timeout">>,
     <<"not_found">>}
ListingScripts ==
    {<<<<"empty", "unused">>>>, <<<<"timeout", "unused">>>>,
     <<<<"page", "unused">>, <<"empty", "unused">>>>,
     <<<<"page", "unused">>, <<"error", "timeout">>>>}

HasTimeout(script) == \E i \in 1..Len(script) : script[i] = "timeout"
ListingHasTimeout(script) ==
    \E i \in 1..Len(script) : "timeout" \in {script[i][1], script[i][2]}

\* the GitHub extraction of the run, for the commits (op = "get_commits") and
\* for the pull requests: over the organization when Config.GITHUB_REPO is
\* "ALL" or left at its default, one repository otherwise. timeout: a request
\* timed out; emptied: every call that met a timeout returned [].
GithubExtract(op, listing, script) ==
    IF sync.all
    THEN LET repos == GetOrgRepos(listing).result
         IN  [result  |-> FanOut(op, repos, [i \in 1..Len(repos) |-> script], <<>>),
              timeout |-> ListingHasTimeout(listing)
                              \/ (repos # <<>> /\ HasTimeout(script)),
              emptied |-> /\ ListingHasTimeout(listing) => repos = <<>>
                          /\ (repos # <<>> /\ HasTimeout(script)) =>
                                \A i \in 1..Len(repos) :
                                    GetItems(op, repos[i], script).result = <<>>]
    ELSE [result  |-> GetItems(op, RepoName(1), script).result,
          timeout |-> HasTimeout(script),
          emptied |-> GetItems(op, RepoName(1), script).result = <<>>]

\* the run after a fetch call of it returned
Fetched(step, timeout, emptied, raised) ==
    [Advance(step, raised) EXCEPT
        !.fetch = [step |-> step, timeout |-> timeout, emptied |-> emptied],
        !.allTimeouts = sync.allTimeouts /\ timeout]

\* quickbooks = QuickBooksExtractor(...)
SyncConstruct ==
    /\ sync.pc = "QuickBooksExtractor"
    /\ QBConstruct
    /\ sync' = Advance("QuickBooksExtractor", qbLast'.raised)
    /\ UNCHANGED <<loaderVars, gh, reportVars>>

\* mercury_accounts = mercury.get_accounts()
SyncGetAccounts ==
    /\ sync.pc = "get_accounts"
    /\ \E ans \in MercuryAnswers, l \in MercuryAccountLists :
        LET c == GetAccounts(ans, l)
        IN  /\ ans # "ok" => l = <<>>
            /\ sync' = [Fetched("get_accounts", ans = "timeout",
                                c.result = <<>>, c.raised)
                            EXCEPT !.mercury_accounts = c.result]
    /\ UNCHANGED <<loaderVars, qbVars, gh, reportVars>>

\* mercury_transactions = mercury.get_transactions(days_back=90)
SyncGetTransactions ==
    /\ sync.pc = "get_transactions"
    /\ \E ans \in MercuryAnswers, l \in MercuryTransactionLists :
        LET c == GetTransactions(ans, l)
        IN  /\ ans # "ok" => l = <<>>
            /\ sync' = [Fetched("get_transactions", ans = "timeout",
                                c.result = <<>>, c.raised)
                            EXCEPT !.mercury_transactions = c.result]
    /\ UNCHANGED <<loaderVars, qbVars, gh, reportVars>>

\* qb_invoices = quickbooks.get_invoices(days_back=90)
SyncGetInvoices ==
    /\ sync.pc = "get_invoices"
    /\ QBGetInvoices
    /\ sync' = [Fetched("get_invoices", qbLast'.timeout,
                        qbLast'.result = <<>>, qbLast'.raised)
                    EXCEPT !.qb_invoices = qbLast'.result]
    /\ UNCHANGED <<loaderVars, gh, reportVars>>

\* qb_payments = quickbooks.get_payments(days_back=90)
SyncGetPayments ==
    /\ sync.pc = "get_payments"
    /\ QBGetPayments
    /\ sync' = [Fetched("get_payments", qbLast'.timeout,
                        qbLast'.result = <<>>, qbLast'.raised)
                    EXCEPT !.qb_payments = qbLast'.result]
    /\ UNCHANGED <<loaderVars, gh, reportVars>>

\* gh_commits = github.get_all_commits(...) or github.get_commits(...)
SyncGetCommits ==
    /\ sync.pc = "get_commits"
    /\ \E listing \in ListingScripts, script \in ItemScripts :
        LET c == GithubExtract("get_commits", listing, script)
        IN  \* the answers are those to requests that were made
            /\ ~sync.all => listing = <<<<"empty", "unused">>>>
            /\ (sync.all /\ GetOrgRepos(listing).result = <<>>) =>
                   script = <<"empty">>
            /\ sync' = [Fetched("get_commits", c.timeout, c.emptied, FALSE)
                            EXCEPT !.gh_commits = c.result]
    /\ UNCHANGED <<loaderVars, qbVars, gh, reportVars>>

\* gh_prs = github.get_all_pull_requests(...) or github.get_pull_requests(...)
SyncGetPullRequests ==
    /\ sync.pc = "get_pull_requests"
    /\ \E listing \in ListingScripts, script \in ItemScripts :
        LET c == GithubExtract("get_pull_requests", listing, script)
        IN  /\ ~sync.all => listing = <<<<"empty", "unused">>>>
            /\ (sync.all /\ GetOrgRepos(listing).result = <<>>) =>
                   script = <<"empty">>
            /\ sync' = [Fetched("get_pull_requests", c.timeout, c.emptied, FALSE)
                            EXCEPT !.gh_prs = c.result]
    /\ UNCHANGED <<loaderVars, qbVars, gh, reportVars>>

\* loader.load_mercury_accounts(mercury_accounts)
SyncLoadAccounts ==
    /\ sync.pc = "load_mercury_accounts"
    /\ LoadMercuryAccountsOf(sync.mercury_accounts)
    /\ sync' = Advance("load_mercury_accounts", last'.raised)
    /\ UNCHANGED <<qbVars, gh, reportVars>>

\* loader.load_mercury_transactions(mercury_transactions)
SyncLoadTransactions ==
    /\ sync.pc = "load_mercury_transactions"
    /\ LoadMercuryTransactionsOf(sync.mercury_transactions)
    /\ sync' = Advance("load_mercury_transactions", last'.raised)
    /\ UNCHANGED <<qbVars, gh, reportVars>>

\* loader.load_quickbooks_invoices(qb_invoices)
SyncLoadInvoices ==
    /\ sync.pc = "load_quickbooks_invoices"
    /\ LoadQuickbooksInvoicesOf(sync.qb_invoices)
    /\ sync' = Advance("load_quickbooks_invoices", last'.raised)
    /\ UNCHANGED <<qbVars, gh, reportVars>>

\* loader.load_quickbooks_payments(qb_payments)
SyncLoadPayments ==
    /\ sync.pc = "load_quickbooks_payments"
    /\ LoadQuickbooksPaymentsOf(sync.qb_payments)
    /\ sync' = Advance("load_quickbooks_payments", last'.raised)
    /\ UNCHANGED <<qbVars, gh, reportVars>>

\* loader.load_github_commits(gh_commits)
SyncLoadCommits ==
    /\ sync.pc = "load_github_commits"
    /\ LoadGithubCommitsOf(sync.gh_commits)
    /\ sync' = Advance("load_github_commits", last'.raised)
    /\ UNCHANGED <<qbVars, gh, reportVars>>

\* loader.load_github_pull_requests(gh_prs)
SyncLoadPullRequests ==
    /\ sync.pc = "load_github_pull_requests"
    /\ LoadGithubPullRequestsOf(sync.gh_prs)
    /\ sync' = Advance("load_github_pull_requests", last'.raised)
    /\ UNCHANGED <<qbVars, gh, reportVars>>

\* time passes in the run; the clock is read by the QuickBooksExtractor alone,
\* so the time that passed since its construction is taken before the first
\* of its two data calls, which follow each other
SyncTick ==
    /\ sync.pc = "get_invoices"
    /\ QBTick
    /\ UNCHANGED <<loaderVars, gh, sync, reportVars>>

\* fetch and allTimeouts keep what the fetch calls met: the last call and
\* whether a request of it timed out, and whether every call so far did
InitSync ==
    sync \in {[pc |-> "QuickBooksExtractor", raisedIn |-> "none", all |-> a,
               mercury_accounts |-> <<>>, mercury_transactions |-> <<>>,
               qb_invoices |-> <<>>, qb_payments |-> <<>>,
               gh_commits |-> <<>>, gh_prs |-> <<>>,
               fetch |-> [step |-> "none", timeout |-> FALSE, emptied |-> TRUE],
               allTimeouts |-> TRUE] : a \in BOOLEAN}

----------------------------------------------------------------------------
(* Dates and times *)

\* A date is <<year, month, day>>, what "%Y-%m-%d" writes; a datetime is a date
\* with the seconds since its midnight.
IsLeap(y) == (y % 4 = 0 /\ y % 100 # 0) \/ y % 400 = 0

DaysIn(y, m) ==
    IF m = 2 THEN (IF IsLeap(y) THEN 29 ELSE 28)
    ELSE IF m \in {4, 6, 9, 11} THEN 30 ELSE 31

NextDay(d) ==
    IF d[3] < DaysIn(d[1], d[2]) THEN <<d[1], d[2], d[3] + 1>>
    ELSE IF d[2] < 12 THEN <<d[1], d[2] + 1, 1>>
    ELSE <<d[1] + 1, 1, 1>>

PrevDay(d) ==
    IF d[3] > 1 THEN <<d[1], d[2], d[3] - 1>>
    ELSE IF d[2] > 1 THEN <<d[1], d[2] - 1, DaysIn(d[1], d[2] - 1)>>
    ELSE <<d[1] - 1, 12, 31>>

\* date + timedelta(days=n), date - timedelta(days=n)
RECURSIVE AddDays(_, _)
AddDays(d, n) == IF n = 0 THEN d ELSE AddDays(NextDay(d), n - 1)

RECURSIVE SubDays(_, _)
SubDays(d, n) == IF n = 0 THEN d ELSE SubDays(PrevDay(d), n - 1)

DateLess(a, b) ==
    \/ a[1] < b[1]
    \/ a[1] = b[1] /\ a[2] < b[2]
    \/ a[1] = b[1] /\ a[2] = b[2] /\ a[3] < b[3]

DateTime(d, s) == [date |-> d, secs |-> s]

\* datetime.strptime(text, "%Y-%m-%d"): the midnight that begins the date
Strptime(d) == DateTime(d, 0)

\* dt.strftime("%Y-%m-%d"): the date, the time of day dropped
Strftime(dt) == dt.date

\* the order of datetimes, which is the order of their ISO texts
Before(a, b) ==
    DateLess(a.date, b.date) \/ (a.date = b.date /\ a.secs < b.secs)

AtOrAfter(a, b) == ~Before(a, b)

\* dt - timedelta(seconds=n), for n less than a day
MinusSeconds(dt, n) ==
    IF dt.secs >= n THEN DateTime(dt.date, dt.secs - n)
    ELSE DateTime(PrevDay(dt.date), dt.secs + 86400 - n)

----------------------------------------------------------------------------
(* MetricsCalculator, SlackReporter, run_weekly_report *)

\* the snapshot of a process that has not calculated one
NoMetrics == [week_start |-> <<>>]

\* No report process is running.  runs counts the processes that ended; keyed
\* tells whether the weekly_metrics table of the deployment rejects a second
\* row with the week_start of a row it holds (the repository does not define
\* the table); clock is the time of the last reading of the clock; synced
\* tells whether a sync has changed the store since the first row was written;
\* webhooks are the destinations the configuration gives a URL for, attempted
\* the destinations the last send_weekly_report posted to.
NoReport ==
    [pc |-> "idle", runs |-> 0, keyed |-> FALSE, clock |-> [date |-> <<2024, 1, 1>>, secs |-> 0],
     metrics |-> NoMetrics, handed |-> NoMetrics, raised |-> FALSE, synced |-> FALSE,
     webhooks |-> {1}, attempted |-> {}, answers |-> <<>>, sent |-> FALSE]

NoCalc   == [op |-> "none"]

\* a loader that has not been called
IdleLoader ==
    [pc |-> "idle", op |-> "none", rows |-> <<>>, i |-> 0, loaded |-> 0,
     skipped |-> 0, faulted |-> FALSE, raised |-> FALSE]

\* Neither loader has been called; written holds, for each table, the record
\* the last successful write of each natural key wrote.
NoCon ==
    [proc |-> [p \in {1, 2} |-> IdleLoader],
     written |-> [tbl \in {"github_pull_requests", "quickbooks_payments"} |-> {}]]

InitReport ==
    /\ wm = <<>>
    /\ rep = NoReport
    /\ calc = NoCalc
    /\ con = NoCon

\* date.toordinal(): the days since 0001-01-01, that day being 1
DaysBeforeYear(y) == (y - 1) * 365 + (y - 1) \div 4 - (y - 1) \div 100 + (y - 1) \div 400

RECURSIVE DaysBeforeMonth(_, _)
DaysBeforeMonth(y, m) ==
    IF m = 1 THEN 0 ELSE DaysBeforeMonth(y, m - 1) + DaysIn(y, m - 1)

Ordinal(d) == DaysBeforeYear(d[1]) + DaysBeforeMonth(d[1], d[2]) + d[3]

\* date.weekday(): Monday is 0
Weekday(d) == (Ordinal(d) + 6) % 7

RECURSIVE Sum(_)
Sum(s) == IF s = <<>> THEN 0 ELSE Head(s) + Sum(Tail(s))

Column(rows, field) == [i \in 1..Len(rows) |-> rows[i][field]]

\* .gte(column, lower).lte(column, upper) on a date column
DateWithin(d, lower, upper) == ~DateLess(d, lower) /\ ~DateLess(upper, d)

\* .gte(column, lower).lt(column, upper) on a timestamp column
InWindow_Closed(t, lower, upper) == AtOrAfter(t, lower) /\ ~Before(upper, t)
InWindow(t, lower, upper) == AtOrAfter(t, lower) /\ Before(t, upper)

\* the two bounds the GitHub counts are taken between: the midnight that
\* begins start_date, and the midnight that ends end_date
StartDatetime(start_date) == Strptime(start_date)
EndDatetime(end_date) == DateTime(NextDay(Strptime(end_date).date), 0)

\* Amounts are integers, in cents.
CalculateAR(store) ==
    LET unpaid(r) == r.status # "Paid"
    IN  Sum(Column(SelectSeq(store["quickbooks_invoices"], unpaid), "balance"))

CalculateCashCollected(store, start_date, end_date) ==
    LET inRange(r) == DateWithin(r.payment_date, start_date, end_date)
    IN  Sum(Column(SelectSeq(store["quickbooks_payments"], inRange), "amount"))

CalculateInvoiced(store, start_date, end_date) ==
    LET inRange(r) == DateWithin(r.invoice_date, start_date, end_date)
    IN  Sum(Column(SelectSeq(store["quickbooks_invoices"], inRange), "total_amount"))

\* the accounts of one sync are stamped within this many seconds
SameSyncSeconds == 10

\* .order("synced_at", desc=True).limit(1): the most recent stamp
LatestSync_Oldest(accounts) ==
    CHOOSE t \in {accounts[i].synced_at : i \in 1..Len(accounts)} :
        \A i \in 1..Len(accounts) : AtOrAfter(accounts[i].synced_at, t)
LatestSync(accounts) ==
    CHOOSE t \in {accounts[i].synced_at : i \in 1..Len(accounts)} :
        \A i \in 1..Len(accounts) : AtOrAfter(t, accounts[i].synced_at)

\* .gte("synced_at", cutoff)
InBatch_After(synced_at, cutoff) == Before(cutoff, synced_at)
InBatch(synced_at, cutoff) == AtOrAfter(synced_at, cutoff)

GetCurrentBalance(accounts) ==
    IF accounts = <<>> THEN 0
    ELSE LET cutoff == MinusSeconds(LatestSync(accounts), SameSyncSeconds)
             batch(r) == InBatch(r.synced_at, cutoff)
         IN  Sum(Column(SelectSeq(accounts, batch), "balance"))

CountCommits(store, start_date, end_date) ==
    LET inWeek(r) == InWindow(r.date, StartDatetime(start_date), EndDatetime(end_date))
    IN  Len(SelectSeq(store["github_commits"], inWeek))

MergedInWeek(store, start_date, end_date) ==
    LET merged(r) ==
            /\ r.state = "merged"
            /\ InWindow(r.merged_at, StartDatetime(start_date), EndDatetime(end_date))
    IN  SelectSeq(store["github_pull_requests"], merged)

CountPRsMerged(store, start_date, end_date) ==
    Len(MergedInWeek(store, start_date, end_date))

\* the merged pull requests of the week counted per author; the authors
\* without one have no entry
GetPRsByAuthor(store, start_date, end_date) ==
    LET prs == MergedInWeek(store, start_date, end_date)
        authors == {prs[i].author : i \in 1..Len(prs)}
    IN  [a \in authors |-> Cardinality({i \in 1..Len(prs) : prs[i].author = a})]

\* the week's transactions; the stores of the model hold fewer than the
\* ten the query is limited to, already in the order of the query
GetRecentTransactions(store, start_date, end_date) ==
    LET inRange(r) == DateWithin(r.date, start_date, end_date)
    IN  SelectSeq(store["mercury_transactions"], inRange)

NoWeekStart == <<>>

\* the Monday of the week today falls in
CurrentWeekStart(today) == Strftime(DateTime(SubDays(today.date, Weekday(today.date)), today.secs))

CalculateWeeklyMetrics(store, week_start_arg, today) ==
    LET week_start == IF week_start_arg = NoWeekStart
                      THEN CurrentWeekStart(today) ELSE week_start_arg
        week_end == Strftime(DateTime(AddDays(Strptime(week_start).date, 6), 0))
    IN  [week_start          |-> week_start,
         week_end            |-> week_end,
         accounts_receivable |-> CalculateAR(store),
         cash_collected      |-> CalculateCashCollected(store, week_start, week_end),
         invoiced_amount     |-> CalculateInvoiced(store, week_start, week_end),
         current_balance     |-> GetCurrentBalance(store["mercury_accounts"]),
         developer_commits   |-> CountCommits(store, week_start, week_end),
         prs_merged          |-> CountPRsMerged(store, week_start, week_end),
         prs_by_author       |-> GetPRsByAuthor(store, week_start, week_end),
         recent_transactions |-> GetRecentTransactions(store, week_start, week_end),
         generated_at        |-> today]

\* A text is the sequence of its characters.
UpperCase == <<"A", "B", "C", "D", "E", "F", "G", "H", "I", "J", "K", "L", "M",
               "N", "O", "P", "Q", "R", "S", "T", "U", "V", "W", "X", "Y", "Z">>
LowerCase == <<"a", "b", "c", "d", "e", "f", "g", "h", "i", "j", "k", "l", "m",
               "n", "o", "p", "q", "r", "s", "t", "u", "v", "w", "x", "y", "z">>

\* str.lower()
Lower(text) ==
    [i \in 1..Len(text) |->
        IF \E k \in 1..26 : UpperCase[k] = text[i]
        THEN LowerCase[CHOOSE k \in 1..26 : UpperCase[k] = text[i]]
        ELSE text[i]]

\* word in text
Contains(text, word) ==
    \E i \in 0..(Len(text) - Len(word)) : SubSeq(text, i + 1, i + Len(word)) = word

\* the null of a source's JSON, which is also what dict.get gives for a key
\* the object does not have
Null == <<"null">>

Get(object, key) == IF key \in DOMAIN object THEN object[key] ELSE Null

\* value or ""
OrEmpty(value) == IF value = Null \/ value = <<>> THEN <<>> ELSE value

\* the branches of _categorize_transaction, in their order
Buckets_InfrastructureFirst ==
    << [name |-> "Infrastructure",
        words |-> <<<<"a", "w", "s">>,
                    <<"a", "z", "u", "r", "e">>,
                    <<"g", "c", "p">>,
                    <<"c", "l", "o", "u", "d">>>>],
       [name |-> "Payroll",
        words |-> <<<<"p", "a", "y", "r", "o", "l", "l">>,
                    <<"s", "a", "l", "a", "r", "y">>,
                    <<"w", "a", "g", "e">>>>],
       [name |-> "Revenue",
        words |-> <<<<"s", "t", "r", "i", "p", "e">>,
                    <<"p", "a", "y", "m", "e", "n", "t">>,
                    <<"i", "n", "v", "o", "i", "c", "e">>>>],
       [name |-> "Rent",
        words |-> <<<<"r", "e", "n", "t">>,
                    <<"l", "e", "a", "s", "e">>>>],
       [name |-> "Contractors",
        words |-> <<<<"c", "o", "n", "t", "r", "a", "c", "t", "o", "r">>,
                    <<"f", "r", "e", "e", "l", "a", "n", "c", "e">>>>],
       [name |-> "Marketing",
        words |-> <<<<"m", "a", "r", "k", "e", "t", "i", "n", "g">>,
                    <<"a", "d", "s">>,
                    <<"a", "d", "v", "e", "r", "t", "i", "s", "i", "n", "g">>>>],
       [name |-> "Software",
        words |-> <<<<"s", "o", "f", "t", "w", "a", "r", "e">>,
                    <<"s", "a", "a", "s">>,
                    <<"s", "u", "b", "s", "c", "r", "i", "p", "t", "i", "o", "n">>>>] >>
Buckets ==
    << [name |-> "Payroll",
        words |-> <<<<"p", "a", "y", "r", "o", "l", "l">>,
                    <<"s", "a", "l", "a", "r", "y">>,
                    <<"w", "a", "g", "e">>>>],
       [name |-> "Infrastructure",
        words |-> <<<<"a", "w", "s">>,
                    <<"a", "z", "u", "r", "e">>,
                    <<"g", "c", "p">>,
                    <<"c", "l", "o", "u", "d">>>>],
       [name |-> "Revenue",
        words |-> <<<<"s", "t", "r", "i", "p", "e">>,
                    <<"p", "a", "y", "m", "e", "n", "t">>,
                    <<"i", "n", "v", "o", "i", "c", "e">>>>],
       [name |-> "Rent",
        words |-> <<<<"r", "e", "n", "t">>,
                    <<"l", "e", "a", "s", "e">>>>],
       [name |-> "Contractors",
        words |-> <<<<"c", "o", "n", "t", "r", "a", "c", "t", "o", "r">>,
                    <<"f", "r", "e", "e", "l", "a", "n", "c", "e">>>>],
       [name |-> "Marketing",
        words |-> <<<<"m", "a", "r", "k", "e", "t", "i", "n", "g">>,
                    <<"a", "d", "s">>,
                    <<"a", "d", "v", "e", "r", "t", "i", "s", "i", "n", "g">>>>],
       [name |-> "Software",
        words |-> <<<<"s", "o", "f", "t", "w", "a", "r", "e">>,
                    <<"s", "a", "a", "s">>,
                    <<"s", "u", "b", "s", "c", "r", "i", "p", "t", "i", "o", "n">>>>] >>

AnyWordIn(words, text) == \E k \in 1..Len(words) : Contains(text, words[k])

RECURSIVE FirstBucket(_, _)
FirstBucket(combined, k) ==
    IF k > Len(Buckets) THEN "Other"
    ELSE IF AnyWordIn(Buckets[k].words, combined) THEN Buckets[k].name
    ELSE FirstBucket(combined, k + 1)

CategorizeTransaction(transaction) ==
    IF "category" \in DOMAIN transaction THEN transaction["category"]
    ELSE LET note == Lower(OrEmpty(Get(transaction, "note")))
             counterparty == Lower(OrEmpty(Get(transaction, "counterpartyName")))
             combined == note \o <<" ">> \o counterparty
         IN  FirstBucket(combined, 1)

\* The result of a division: a quotient num/den, or the ZeroDivisionError.
Divide(a, b) ==
    IF b = 0 THEN [raised |-> TRUE, num |-> 0, den |-> 1]
    ELSE [raised |-> FALSE, num |-> a, den |-> b]

Times(q, n) == [q EXCEPT !.num = q.num * n]

\* collection_rate of _format_weekly_report
CollectionRate_Unguarded(collected, invoiced) ==
    Times(Divide(collected, invoiced), 100)
CollectionRate(collected, invoiced) ==
    IF invoiced > 0 THEN Times(Divide(collected, invoiced), 100)
    ELSE [raised |-> FALSE, num |-> 0, den |-> 1]

\* due_date < datetime.now(), due_date the midnight that begins the due date
PastDue_ByDay(due_date_str, today) == DateLess(Strptime(due_date_str).date, today.date)
PastDue(due_date_str, today) == Before(Strptime(due_date_str), today)

GetInvoiceStatus(invoice, today) ==
    LET balance == IF "Balance" \in DOMAIN invoice THEN invoice["Balance"] ELSE 0
        due_date_str == Get(invoice, "DueDate")
    IN  IF balance = 0 THEN "Paid"
        ELSE IF due_date_str # Null /\ due_date_str # <<>> /\ PastDue(due_date_str, today)
             THEN "Overdue"
             ELSE "Unpaid"

----------------------------------------------------------------------------
(* The stores and arguments the derivations are applied to *)

\* the rows of a sequence at the chosen indexes, in the order of the sequence
Chosen(rows, indexes) == SelectSeq(rows, LAMBDA r : \E i \in indexes : rows[i] = r)

MetricCommit(sha, date, secs) ==
    [commit_sha |-> sha, date |-> DateTime(date, secs)]

\* a pull request that was not merged has no merged_at
NoTime == <<>>

MetricPullRequest(n, state, merged_at, author) ==
    [pr_number |-> n, state |-> state, merged_at |-> merged_at, author |-> author]

MetricAccount(id, balance, date, secs) ==
    [account_id |-> id, balance |-> balance, synced_at |-> DateTime(date, secs)]

MetricInvoice(id, total, balance, date, status) ==
    [invoice_id |-> id, total_amount |-> total, balance |-> balance,
     invoice_date |-> date, status |-> status]

MetricPayment(id, amount, date) ==
    [payment_id |-> id, amount |-> amount, payment_date |-> date]

MetricTransaction(id, amount, date, description) ==
    [transaction_id |-> id, amount |-> amount, date |-> date, description |-> description]

\* commits around the two ends of the weeks of WeekStarts
MetricCommits ==
    << MetricCommit(1, <<2024, 3, 3>>, 86399),
       MetricCommit(2, <<2024, 3, 4>>, 0),
       MetricCommit(3, <<2024, 3, 10>>, 86340),
       MetricCommit(4, <<2024, 3, 11>>, 0),
       MetricCommit(5, <<2024, 1, 2>>, 86399),
       MetricCommit(6, <<2024, 1, 3>>, 0),
       MetricCommit(7, <<2023, 3, 2>>, 43200) >>

MetricPullRequests ==
    << MetricPullRequest(1, "merged", DateTime(<<2024, 3, 10>>, 86340), "ana"),
       MetricPullRequest(2, "merged", DateTime(<<2024, 3, 11>>, 0), "ben"),
       MetricPullRequest(3, "closed", NoTime, "ben"),
       MetricPullRequest(4, "merged", DateTime(<<2024, 3, 4>>, 0), "ana") >>

MetricInvoices ==
    << MetricInvoice(1, 5000, 5000, <<2024, 3, 4>>, "Unpaid"),
       MetricInvoice(2, 7000, 0, <<2024, 3, 10>>, "Paid"),
       MetricInvoice(3, 100, 100, <<2024, 3, 11>>, "Overdue") >>

MetricPayments ==
    << MetricPayment(1, 7000, <<2024, 3, 10>>),
       MetricPayment(2, 300, <<2024, 3, 3>>) >>

MetricTransactions ==
    << MetricTransaction(2, -1200, <<2024, 3, 8>>, "AWS"),
       MetricTransaction(1, 9000, <<2024, 3, 1>>, "Stripe payout") >>

\* the stamps of the accounts: a first sync at 06:00:00, others 5, 10, 11 and
\* 20 seconds after it, and two on the two sides of a midnight
SyncStamps ==
    { DateTime(<<2024, 3, 11>>, 21600), DateTime(<<2024, 3, 11>>, 21605),
      DateTime(<<2024, 3, 11>>, 21610), DateTime(<<2024, 3, 11>>, 21611),
      DateTime(<<2024, 3, 11>>, 21620),
      DateTime(<<2024, 3, 11>>, 86395), DateTime(<<2024, 3, 12>>, 4) }

MaxAccounts == 3

\* every accounts table of at most MaxAccounts accounts; the balance of an
\* account tells which account it is
AccountTables ==
    UNION { { [i \in 1..n |-> [account_id |-> i, balance |-> 10 ^ i, synced_at |-> f[i]]]
              : f \in [1..n -> SyncStamps] } : n \in 0..MaxAccounts }

MetricStore(accounts, commits, prs) ==
    [tbl \in Tables |->
        CASE tbl = "mercury_accounts"     -> accounts
          [] tbl = "mercury_transactions" -> MetricTransactions
          [] tbl = "quickbooks_invoices"  -> MetricInvoices
          [] tbl = "quickbooks_payments"  -> MetricPayments
          [] tbl = "github_commits"       -> commits
          [] tbl = "github_pull_requests" -> prs]

\* a Monday, a Monday whose week ends in March of a leap year, a Wednesday
\* whose week ends in the next year, a Friday before the end of a February
WeekStarts ==
    { <<2024, 3, 4>>, <<2024, 2, 26>>, <<2023, 12, 28>>, <<2023, 2, 24>> }

\* the moments a run can start at
Todays ==
    { DateTime(<<2024, 3, 4>>, 0), DateTime(<<2024, 3, 10>>, 86399),
      DateTime(<<2024, 3, 13>>, 32400), DateTime(<<2024, 1, 1>>, 32400) }

\* calculate_weekly_metrics(week_start) over a store
CalcWeeklyMetrics ==
    /\ calc = NoCalc
    /\ \E arg \in WeekStarts \cup {NoWeekStart}, today \in Todays,
          cs \in SUBSET (1..Len(MetricCommits)),
          ps \in SUBSET (1..Len(MetricPullRequests)) :
           LET store == MetricStore(<<>>, Chosen(MetricCommits, cs),
                                    Chosen(MetricPullRequests, ps))
           IN  calc' = [op         |-> "calculate_weekly_metrics",
                        week_start |-> arg,
                        store      |-> store,
                        out        |-> CalculateWeeklyMetrics(store, arg, today)]

\* _get_current_balance() over an accounts table
CalcCurrentBalance ==
    /\ calc = NoCalc
    /\ \E accounts \in AccountTables :
           calc' = [op       |-> "get_current_balance",
                    accounts |-> accounts,
                    out      |-> GetCurrentBalance(accounts)]

\* what Mercury can send as the note and as the counterparty of a transaction
Notes ==
    { Null, <<>>,
      <<"P", "a", "y", "r", "o", "l", "l", " ", "A", "W", "S">>,
      <<"a", "w", "s", " ", "b", "i", "l", "l">>,
      <<"C", "u", "r", "r", "e", "n", "t", " ", "a", "c", "c", "o", "u", "n", "t">>,
      <<"S", "t", "r", "i", "p", "e">>,
      <<"G", "o", "o", "g", "l", "e", " ", "A", "d", "s", " ", "S", "a", "a", "S">>,
      <<"O", "f", "f", "i", "c", "e", " ", "L", "E", "A", "S", "E">>,
      <<"D", "i", "n", "n", "e", "r">> }

Counterparties ==
    { Null,
      <<"G", "u", "s", "t", "o">>,
      <<"A", "z", "u", "r", "e">>,
      <<"U", "p", "w", "o", "r", "k", " ", "F", "r", "e", "e", "l", "a", "n", "c", "e">> }

\* the category of a transaction that has one
Categories == { Null, <<>>, <<"T", "r", "a", "v", "e", "l">>, <<"p", "a", "y", "r", "o", "l", "l">> }

MercuryTransactions ==
    { [note |-> n, counterpartyName |-> c] : n \in Notes, c \in Counterparties }
    \cup { [note |-> n, counterpartyName |-> Null, category |-> g]
             : n \in Notes, g \in Categories }
    \cup { [counterpartyName |-> c] : c \in Counterparties }

\* _categorize_transaction(transaction)
CalcCategorize ==
    /\ calc = NoCalc
    /\ \E transaction \in MercuryTransactions :
           calc' = [op          |-> "categorize_transaction",
                    transaction |-> transaction,
                    out         |-> CategorizeTransaction(transaction)]

\* the amounts of a snapshot, in cents
Amounts == { 0, 1, 2500, 4000 }

\* the collection rate of _format_weekly_report(metrics)
CalcCollectionRate ==
    /\ calc = NoCalc
    /\ \E collected \in Amounts, invoiced \in Amounts :
           calc' = [op        |-> "collection_rate",
                    collected |-> collected,
                    invoiced  |-> invoiced,
                    out       |-> CollectionRate(collected, invoiced)]

\* the invoices QuickBooks can send: a balance, which is not negative, and a
\* due date, a date or an empty text or none
QuickbooksInvoices ==
    { [Balance |-> b, DueDate |-> d]
        : b \in {0, 1, 5000},
          d \in {Null, <<>>, <<2024, 3, 4>>, <<2024, 3, 10>>, <<2024, 3, 13>>, <<2024, 12, 31>>} }
    \cup { [Balance |-> b] : b \in {0, 5000} }
    \cup { [DueDate |-> <<2024, 3, 10>>] }

\* _get_invoice_status(invoice) at the moment today
CalcInvoiceStatus ==
    /\ calc = NoCalc
    /\ \E invoice \in QuickbooksInvoices, today \in Todays :
           calc' = [op      |-> "get_invoice_status",
                    invoice |-> invoice,
                    today   |-> today,
                    out     |-> GetInvoiceStatus(invoice, today)]

\* not None, not ""
Truthy(value) == value # Null /\ value # <<>>

\* mutant: the state of the source is copied
PullRequestRecord_SourceState(pr, repo) ==
    [pr_number  |-> pr.number,
     repository |-> repo,
     state      |-> pr.state,
     merged_at  |-> IF Truthy(Get(pr, "merged_at")) THEN pr.merged_at ELSE Null]

\* the record get_pull_requests appends for one pull request of the page
PullRequestRecord(pr, repo) ==
    [pr_number  |-> pr.number,
     repository |-> repo,
     state      |-> IF Truthy(Get(pr, "merged_at")) THEN "merged" ELSE pr.state,
     merged_at  |-> IF Truthy(Get(pr, "merged_at")) THEN pr.merged_at ELSE Null]

\* created_at < since_date, since_date being today - timedelta(days=days_back)
BeforeSince(created_at, today, days_back) ==
    (Ordinal(today.date) - Ordinal(created_at)) * 86400 + today.secs
        > days_back * 86400

\* the loop of get_pull_requests over one page: a pull request created before
\* since_date is passed over
RECURSIVE PullRequestsOfPage(_, _, _)
PullRequestsOfPage(page_prs, repo, today) ==
    IF page_prs = <<>> THEN <<>>
    ELSE LET pr   == Head(page_prs)
             rest == PullRequestsOfPage(Tail(page_prs), repo, today)
         IN  IF BeforeSince(pr.created_at, today, 90) THEN rest
             ELSE <<PullRequestRecord(pr, repo)>> \o rest

\* the pull requests GitHub can send with state=all: open or closed, merged_at
\* a time when the pull request was merged and null otherwise (an absent key
\* and an empty text are read the same way)
GithubPulls ==
    { [number |-> 1, state |-> st, created_at |-> c, merged_at |-> m]
        : st \in {"open", "closed"},
          c \in {<<2023, 11, 1>>, <<2024, 3, 1>>},
          m \in {Null, <<>>, <<2024, 3, 5>>} }
    \cup { [number |-> 1, state |-> st, created_at |-> <<2024, 3, 1>>]
             : st \in {"open", "closed"} }

GithubPages == {<<>>} \cup {<<a>> : a \in GithubPulls}
                      \cup {<<a, b>> : a \in GithubPulls, b \in GithubPulls}

\* the transformation of get_pull_requests on one page, days_back = 90
CalcPullRequests ==
    /\ calc = NoCalc
    /\ \E page_prs \in GithubPages, today \in Todays :
           calc' = [op   |-> "get_pull_requests",
                    page |-> page_prs,
                    out  |-> PullRequestsOfPage(page_prs, RepoName(1), today)]

\* f"INV-{id}", the invoice_id get_invoices gives the invoice id
InvoiceId(id) == <<"INV", id>>

\* f"PMT-{id}-{invoice_id}"
PaymentId(id, invoice_id) == <<"PMT", id, invoice_id>>

\* the invoice ids of the entries of one LinkedTxn list whose TxnType is
\* 'Invoice', in their order
RECURSIVE InvoicesOfLinks(_)
InvoicesOfLinks(linked_txn) ==
    IF linked_txn = <<>> THEN <<>>
    ELSE (IF Get(Head(linked_txn), "TxnType") = <<"Invoice">>
          THEN <<InvoiceId(Get(Head(linked_txn), "TxnId"))>> ELSE <<>>)
         \o InvoicesOfLinks(Tail(linked_txn))

RECURSIVE InvoicesOfLines(_)
InvoicesOfLines(lines) ==
    IF lines = <<>> THEN <<>>
    ELSE InvoicesOfLinks(IF "LinkedTxn" \in DOMAIN Head(lines)
                         THEN Head(lines).LinkedTxn ELSE <<>>)
         \o InvoicesOfLines(Tail(lines))

\* invoice_ids of get_payments: one entry for every link to an invoice, a
\* repeated invoice repeated
LinkedInvoiceIds(pmt) ==
    InvoicesOfLines(IF "Line" \in DOMAIN pmt THEN pmt.Line ELSE <<>>)

\* float(pmt.get('TotalAmt', 0))
TotalAmt(pmt) == IF "TotalAmt" \in DOMAIN pmt THEN pmt.TotalAmt ELSE 0

\* total / n, kept as the exact quotient (the rounding of the floating-point
\* division is left out)
Quotient(total, n) == [num |-> total, den |-> n]

\* the records get_payments appends for one payment of the source: one for
\* each entry of invoice_ids
PaymentRecords(pmt) ==
    LET invoice_ids == LinkedInvoiceIds(pmt)
    IN  [i \in 1..Len(invoice_ids) |->
            [payment_id   |-> PaymentId(pmt.Id, invoice_ids[i]),
             invoice_id   |-> invoice_ids[i],
             payment_date |-> IF "TxnDate" \in DOMAIN pmt THEN pmt.TxnDate ELSE <<>>,
             amount       |-> Quotient(TotalAmt(pmt), Len(invoice_ids))]]

\* the transformation of get_payments over the payments of the answer
RECURSIVE GetPaymentsOf(_)
GetPaymentsOf(qb_payments) ==
    IF qb_payments = <<>> THEN <<>>
    ELSE PaymentRecords(Head(qb_payments)) \o GetPaymentsOf(Tail(qb_payments))

InvoiceLink(id) == [TxnType |-> <<"Invoice">>, TxnId |-> id]
OtherLink(id)   == [TxnType |-> <<"CreditMemo">>, TxnId |-> id]

\* the lines of a payment: without a linked transaction, linked to one invoice,
\* to a transaction that is no invoice, to two invoices
SourceLines ==
    { [Amount |-> 0],
      [LinkedTxn |-> <<InvoiceLink(1)>>],
      [LinkedTxn |-> <<InvoiceLink(2)>>],
      [LinkedTxn |-> <<OtherLink(1)>>],
      [LinkedTxn |-> <<InvoiceLink(1), InvoiceLink(2)>>] }

SourceLineLists ==
    {<<>>} \cup {<<a>> : a \in SourceLines}
           \cup {<<a, b>> : a \in SourceLines, b \in SourceLines}

\* the payments QuickBooks can send: the ids of two payments differ
SourcePayments ==
    { [Id |-> 1, TotalAmt |-> 100, TxnDate |-> <<2024, 3, 5>>, Line |-> l]
        : l \in SourceLineLists }
    \cup { [Id |-> 1, TotalAmt |-> 100],
           [Id |-> 1, Line |-> <<[LinkedTxn |-> <<InvoiceLink(1)>>]>>] }

SourceBatches ==
    {<<>>} \cup {<<p>> : p \in SourcePayments}
           \cup {<<p, [Id |-> 2, TotalAmt |-> 60,
                       Line |-> <<[LinkedTxn |-> <<InvoiceLink(1)>>]>>]>>
                    : p \in SourcePayments}

\* the invoices the run extracted with the payments
SourceInvoiceBatches ==
    { <<>>,
      <<Invoice(InvoiceId(1), 100)>>,
      <<Invoice(InvoiceId(1), 100), Invoice(InvoiceId(2), 100)>> }

\* qb_payments = quickbooks.get_payments(...), the transformation of the answer
PaymentsExtract ==
    /\ calc = NoCalc
    /\ \E qb_payments \in SourceBatches :
           calc' = [op     |-> "get_payments",
                    source |-> qb_payments,
                    out    |-> GetPaymentsOf(qb_payments)]
    /\ UNCHANGED <<loaderVars, qbVars, gh, sync, wm, rep, con>>

\* loader.load_quickbooks_invoices(qb_invoices), before the payments
PaymentsLoadInvoices ==
    /\ calc.op = "get_payments"
    /\ last = NoCall
    /\ \E qb_invoices \in SourceInvoiceBatches :
           LoadQuickbooksInvoicesOf(qb_invoices)
    /\ UNCHANGED <<qbVars, gh, sync, reportVars>>

\* loader.load_quickbooks_payments(qb_payments), the run having passed the
\* load of the invoices
PaymentsLoadPayments ==
    /\ last.op = "load_quickbooks_invoices"
    /\ ~last.raised
    /\ LoadQuickbooksPaymentsOf(calc.out)
    /\ UNCHANGED <<qbVars, gh, sync, reportVars>>

\* the number of report processes of a behaviour
MaxRuns == 2

\* the stores a report can find: nothing synced yet, or the tables of the
\* derivations above
ReportStores ==
    { EmptyStore,
      MetricStore(<<>>, MetricCommits, <<>>),
      MetricStore(<<MetricAccount(1, 10, <<2024, 3, 11>>, 21600),
                    MetricAccount(2, 100, <<2024, 3, 11>>, 21605)>>,
                  Chosen(MetricCommits, {3, 4}), MetricPullRequests) }

\* db_metrics of save_weekly_metrics: the copy without the two columns the
\* table does not have
DbMetrics_WholeSnapshot(metrics) == metrics
DbMetrics(metrics) ==
    [k \in DOMAIN metrics \ {"prs_by_author", "recent_transactions"} |-> metrics[k]]

\* table("weekly_metrics").insert(row)
InsertRow_Replace(rows, row) ==
    IF \E i \in 1..Len(rows) : rows[i].week_start = row.week_start
    THEN [i \in 1..Len(rows) |->
             IF rows[i].week_start = row.week_start THEN row ELSE rows[i]]
    ELSE Append(rows, row)
InsertRow(rows, row) == Append(rows, row)

\* the insert is rejected: the table is keyed by week_start and holds a row
\* of the week
Rejected(rows, row, keyed) ==
    keyed /\ \E i \in 1..Len(rows) : rows[i].week_start = row.week_start

\* save_weekly_metrics(metrics): the table after it, the snapshot after it,
\* and whether it raised
SaveWeeklyMetrics(rows, metrics, keyed) ==
    LET db_metrics == DbMetrics(metrics)
    IN  IF Rejected(rows, db_metrics, keyed)
        THEN [rows |-> rows, metrics |-> metrics, raised |-> TRUE]
        ELSE [rows |-> InsertRow(rows, db_metrics), metrics |-> metrics, raised |-> FALSE]

\* run_weekly_report reads the clock and calculates the snapshot of the
\* current week
ReportCalculate ==
    /\ rep.pc = "idle"
    /\ rep.runs < MaxRuns
    /\ \E today \in Todays :
          /\ AtOrAfter(today, rep.clock)
          /\ rep' = [rep EXCEPT !.pc = "save",
                                !.clock = today,
                                !.metrics = CalculateWeeklyMetrics(db, NoWeekStart, today),
                                !.handed = NoMetrics,
                                !.raised = FALSE,
                                !.attempted = {},
                                !.answers = <<>>,
                                !.sent = FALSE]
    /\ UNCHANGED <<loaderVars, qbVars, gh, sync, wm, calc, con>>

\* mutant: what save_weekly_metrics raises is swallowed
ReportSave_Swallows ==
    /\ rep.pc = "save"
    /\ LET saved == SaveWeeklyMetrics(wm, rep.metrics, rep.keyed)
       IN  /\ wm' = saved.rows
           /\ rep' = [rep EXCEPT !.pc = "notify",
                                 !.metrics = saved.metrics,
                                 !.raised = saved.raised]
    /\ UNCHANGED <<loaderVars, qbVars, gh, sync, calc, con>>

\* calculator.save_weekly_metrics(metrics); what it raises ends the process
ReportSave ==
    /\ rep.pc = "save"
    /\ LET saved == SaveWeeklyMetrics(wm, rep.metrics, rep.keyed)
       IN  /\ wm' = saved.rows
           /\ rep' = [rep EXCEPT !.pc = IF saved.raised THEN "failed" ELSE "notify",
                                 !.metrics = saved.metrics,
                                 !.raised = saved.raised]
    /\ UNCHANGED <<loaderVars, qbVars, gh, sync, calc, con>>

\* the destinations of SlackReporter, in the order they are posted to
Webhooks == <<1, 2, 3>>

\* what requests.post to a webhook does: a 200, another status, or an
\* exception of the connection
PostAnswers == {"ok", "error", "network"}

\* the posts of send_weekly_report from destination k on, which nothing guards:
\* the exception of a post ends the call
RECURSIVE Posts(_, _, _)
Posts(k, webhooks, answers) ==
    IF k > Len(Webhooks) THEN [attempted |-> {}, raised |-> FALSE]
    ELSE IF Webhooks[k] \notin webhooks THEN Posts(k + 1, webhooks, answers)
    ELSE IF answers[k] = "network" THEN [attempted |-> {Webhooks[k]}, raised |-> TRUE]
    ELSE LET rest == Posts(k + 1, webhooks, answers)
         IN  [rest EXCEPT !.attempted = {Webhooks[k]} \cup rest.attempted]

\* send_weekly_report(metrics): without a primary webhook nothing is posted
SendWeeklyReport(webhooks, answers) ==
    IF Webhooks[1] \notin webhooks
    THEN [attempted |-> {}, raised |-> FALSE, success |-> FALSE]
    ELSE LET posts == Posts(1, webhooks, answers)
         IN  [attempted |-> posts.attempted, raised |-> posts.raised,
              success |-> ~posts.raised /\ answers[1] = "ok"]

\* reporter.send_weekly_report(metrics); what it raises ends the process
ReportNotify ==
    /\ rep.pc = "notify"
    /\ \E answers \in [1..Len(Webhooks) -> PostAnswers] :
          LET sent == SendWeeklyReport(rep.webhooks, answers)
          IN  rep' = [rep EXCEPT !.pc = IF sent.raised THEN "undelivered" ELSE "done",
                                 !.handed = rep.metrics,
                                 !.attempted = sent.attempted,
                                 !.answers = answers,
                                 !.sent = TRUE]
    /\ UNCHANGED <<loaderVars, qbVars, gh, sync, wm, calc, con>>

\* the process ends
ReportExit ==
    /\ rep.pc \in {"done", "failed", "undelivered"}
    /\ rep' = [rep EXCEPT !.pc = "idle", !.runs = rep.runs + 1,
                          !.metrics = NoMetrics, !.handed = NoMetrics,
                          !.attempted = {}, !.answers = <<>>, !.sent = FALSE]
    /\ UNCHANGED <<loaderVars, qbVars, gh, sync, wm, calc, con>>

\* a run_daily_sync between two reports: its loads write the six tables of
\* the sources
ReportSync ==
    /\ rep.pc = "idle"
    /\ rep.runs < MaxRuns
    /\ \E store \in ReportStores \ {db} : db' = store
    /\ rep' = [rep EXCEPT !.synced = wm # <<>>]
    /\ UNCHANGED <<now, last, qbVars, gh, sync, wm, calc, con>>

----------------------------------------------------------------------------
(* Two loaders on one store *)

\* Each store call is one statement of the store and takes effect at once;
\* between two calls of one loader the other loader may make calls.

\* the batches two runs over one data window hand to a loader
ConcurrentBatches(op) ==
    IF op = "load_github_pull_requests" THEN Batches(PullRequestRecs)
    ELSE Batches(PaymentRecs)

ConcurrentTable(op) ==
    IF op = "load_github_pull_requests" THEN "github_pull_requests"
    ELSE "quickbooks_payments"

\* the record of the last write of each key, after the rows were written
LastWritten(written, rows, cols) ==
    {w \in written : \A i \in 1..Len(rows) : Proj(w, cols) # Proj(rows[i], cols)}
        \cup {rows[i] : i \in {j \in 1..Len(rows) :
                 \A k \in (j + 1)..Len(rows) : Proj(rows[k], cols) # Proj(rows[j], cols)}}

\* the loader p after a store call: the store and the last writes when the
\* call succeeded
AfterCall(p, res, rows, proc) ==
    LET tbl == ConcurrentTable(con.proc[p].op)
    IN  /\ db' = res.db
        /\ con' = [con EXCEPT
               !.proc[p] = proc,
               !.written[tbl] = IF res.ok THEN LastWritten(@, rows, Constraint(tbl)) ELSE @]

\* the position after record i of a loop
NextRecord(proc) ==
    [proc EXCEPT !.i = @ + 1,
                 !.pc = IF proc.i + 1 > Len(proc.rows) THEN "done"
                        ELSE IF proc.op = "load_github_pull_requests" THEN "insert"
                        ELSE "upsert"]

\* a load is called: the empty batch returns 0, any other is stamped
LoaderCall(p) ==
    /\ con.proc[p].pc = "idle"
    /\ \E op \in {"load_github_pull_requests", "load_quickbooks_payments"} :
       \E batch \in ConcurrentBatches(op) :
          con' = [con EXCEPT !.proc[p] =
                    [IdleLoader EXCEPT
                        !.op = op,
                        !.rows = Stamp(batch, now),
                        !.i = 1,
                        !.pc = IF batch = <<>> THEN "done"
                               ELSE IF op = "load_github_pull_requests" THEN "bulk"
                               ELSE "upsert"]]
    /\ now' = now + 1
    /\ UNCHANGED <<db, last, qbVars, gh, sync, wm, rep, calc>>

\* load_github_pull_requests: the bulk upsert
LoaderBulkUpsert(p) ==
    /\ con.proc[p].pc = "bulk"
    /\ \E fault \in BOOLEAN :
          LET proc == con.proc[p]
              res == Call(fault, db, StoreUpsert(db, "github_pull_requests", proc.rows,
                                                  {"pr_number", "repository"}))
          IN  AfterCall(p, res, proc.rows,
                  IF res.ok
                  THEN [proc EXCEPT !.pc = "done", !.loaded = Len(proc.rows)]
                  ELSE [proc EXCEPT !.pc = "insert", !.faulted = @ \/ fault])
    /\ UNCHANGED <<now, last, qbVars, gh, sync, wm, rep, calc>>

\* load_github_pull_requests, the fallback: the insert of record i
LoaderInsert(p) ==
    /\ con.proc[p].pc = "insert"
    /\ \E fault \in BOOLEAN :
          LET proc == con.proc[p]
              res == Call(fault, db, StoreInsert(db, "github_pull_requests", proc.rows[proc.i]))
          IN  AfterCall(p, res, <<proc.rows[proc.i]>>,
                  IF res.ok
                  THEN NextRecord([proc EXCEPT !.loaded = @ + 1])
                  ELSE [proc EXCEPT !.pc = "update", !.faulted = @ \/ fault])
    /\ UNCHANGED <<now, last, qbVars, gh, sync, wm, rep, calc>>

\* load_github_pull_requests, the fallback: the update of record i after its
\* insert raised
LoaderUpdate(p) ==
    /\ con.proc[p].pc = "update"
    /\ \E fault \in BOOLEAN :
          LET proc == con.proc[p]
              res == Call(fault, db, StoreUpdate(db, "github_pull_requests",
                                                  proc.rows[proc.i], UpdateScope))
              \* an update writes the rows it matches, which may be none
              hit == Matching(db["github_pull_requests"], proc.rows[proc.i], UpdateScope) # {}
          IN  AfterCall(p, res, IF hit THEN <<proc.rows[proc.i]>> ELSE <<>>,
                  IF res.ok
                  THEN NextRecord([proc EXCEPT !.loaded = @ + 1])
                  ELSE NextRecord([proc EXCEPT !.faulted = @ \/ fault]))
    /\ UNCHANGED <<now, last, qbVars, gh, sync, wm, rep, calc>>

\* load_quickbooks_payments: the upsert of record i
LoaderUpsert(p) ==
    /\ con.proc[p].pc = "upsert"
    /\ \E fault \in BOOLEAN :
          LET proc == con.proc[p]
              res == Call(fault, db, StoreUpsert(db, "quickbooks_payments",
                                                  <<proc.rows[proc.i]>>, {"payment_id"}))
          IN  AfterCall(p, res, <<proc.rows[proc.i]>>,
                  IF res.ok
                  THEN NextRecord([proc EXCEPT !.loaded = @ + 1])
                  ELSE IF IsForeignKeyError(res.err)
                  THEN NextRecord([proc EXCEPT !.skipped = @ + 1])
                  ELSE NextRecord([proc EXCEPT !.faulted = @ \/ fault]))
    /\ UNCHANGED <<now, last, qbVars, gh, sync, wm, rep, calc>>

----------------------------------------------------------------------------
(* Specifications *)

\* any sequence of load calls, on a store as earlier runs may have left it
NextLoader ==
    \/ now <= MaxLoads /\ LoadMercuryAccounts /\ UNCHANGED <<qbVars, gh, sync, reportVars>>
    \/ now <= MaxLoads /\ LoadMercuryTransactions /\ UNCHANGED <<qbVars, gh, sync, reportVars>>
    \/ now <= MaxLoads /\ LoadQuickbooksInvoices /\ UNCHANGED <<qbVars, gh, sync, reportVars>>
    \/ now <= MaxLoads /\ LoadQuickbooksPayments /\ UNCHANGED <<qbVars, gh, sync, reportVars>>
    \/ now <= MaxLoads /\ LoadGithubCommits /\ UNCHANGED <<qbVars, gh, sync, reportVars>>
    \/ now <= MaxLoads /\ LoadGithubPullRequests /\ UNCHANGED <<qbVars, gh, sync, reportVars>>

\* the loader alone: no QuickBooksExtractor call is made
LoaderInit == InitLoader /\ InitQB /\ qb.realm /\ InitGH /\ InitSync /\ sync.all /\ InitReport

SpecLoader == LoaderInit /\ [][NextLoader]_vars

\* one QuickBooksExtractor object, its calls in any order, as time passes
NextQB ==
    \/ QBConstruct /\ UNCHANGED <<loaderVars, gh, sync, reportVars>>
    \/ QBGetInvoices /\ UNCHANGED <<loaderVars, gh, sync, reportVars>>
    \/ QBGetPayments /\ UNCHANGED <<loaderVars, gh, sync, reportVars>>
    \/ QBGetCompanyInfo /\ UNCHANGED <<loaderVars, gh, sync, reportVars>>
    \/ QBTick /\ UNCHANGED <<loaderVars, gh, sync, reportVars>>

\* the extractor alone: nothing is loaded
QBInit == InitQB /\ InitLoader /\ db = EmptyStore /\ InitGH /\ InitSync /\ sync.all /\ InitReport

SpecQB == QBInit /\ [][NextQB]_vars

\* one GitHubExtractor, its calls one after the other, each a sequence of
\* requests
NextGH ==
    \/ GHStartRepos /\ UNCHANGED <<loaderVars, qbVars, sync, reportVars>>
    \/ GHStartItems /\ UNCHANGED <<loaderVars, qbVars, sync, reportVars>>
    \/ GHReposPage /\ UNCHANGED <<loaderVars, qbVars, sync, reportVars>>
    \/ GHItemsPage /\ UNCHANGED <<loaderVars, qbVars, sync, reportVars>>
    \/ GHReturn /\ UNCHANGED <<loaderVars, qbVars, sync, reportVars>>

\* the extractor alone
GHInit == InitGH /\ InitLoader /\ db = EmptyStore /\ InitQB /\ qb.realm /\ InitSync /\ sync.all /\ InitReport

\* every request is answered or times out after 10 seconds, and the code
\* between two requests does not block
SpecGH == GHInit /\ [][NextGH]_vars /\ WF_vars(NextGH)

\* one run of run_daily_sync
NextSync ==
    \/ SyncConstruct
    \/ SyncGetAccounts
    \/ SyncGetTransactions
    \/ SyncGetInvoices
    \/ SyncGetPayments
    \/ SyncGetCommits
    \/ SyncGetPullRequests
    \/ SyncLoadAccounts
    \/ SyncLoadTransactions
    \/ SyncLoadInvoices
    \/ SyncLoadPayments
    \/ SyncLoadCommits
    \/ SyncLoadPullRequests
    \/ SyncTick

\* a run on an empty store: the invoices its payments reference are those it
\* loads itself
SyncInit == InitSync /\ InitLoader /\ db = EmptyStore /\ InitQB /\ InitGH /\ InitReport

SpecSync == SyncInit /\ [][NextSync]_vars

\* The derivations, each applied once to the arguments it can be given.
NextCalc ==
    \/ CalcWeeklyMetrics /\ UNCHANGED <<loaderVars, qbVars, gh, sync, wm, rep, con>>
    \/ CalcCurrentBalance /\ UNCHANGED <<loaderVars, qbVars, gh, sync, wm, rep, con>>
    \/ CalcCollectionRate /\ UNCHANGED <<loaderVars, qbVars, gh, sync, wm, rep, con>>
    \/ CalcCategorize /\ UNCHANGED <<loaderVars, qbVars, gh, sync, wm, rep, con>>
    \/ CalcInvoiceStatus /\ UNCHANGED <<loaderVars, qbVars, gh, sync, wm, rep, con>>
    \/ CalcPullRequests /\ UNCHANGED <<loaderVars, qbVars, gh, sync, wm, rep, con>>

CalcInit == InitReport /\ InitLoader /\ db = EmptyStore /\ InitQB /\ qb.realm /\ InitGH /\ InitSync /\ sync.all

SpecCalc == CalcInit /\ [][NextCalc]_vars

\* The payments of one run: extracted, then loaded after the invoices.
NextPayments ==
    \/ PaymentsExtract
    \/ PaymentsLoadInvoices
    \/ PaymentsLoadPayments

PaymentsInit == InitReport /\ InitLoader /\ db = EmptyStore /\ InitQB /\ qb.realm /\ InitGH /\ InitSync /\ sync.all

SpecPayments == PaymentsInit /\ [][NextPayments]_vars

\* The weekly report, run MaxRuns times over a store that syncs change.
NextReport ==
    \/ ReportCalculate
    \/ ReportSave
    \/ ReportNotify
    \/ ReportExit
    \/ ReportSync

ReportInit ==
    /\ wm = <<>>
    /\ calc = NoCalc
    /\ con = NoCon
    /\ rep \in {[NoReport EXCEPT !.keyed = k, !.webhooks = w] :
                  k \in BOOLEAN, w \in SUBSET {1, 2, 3}}
    /\ db \in ReportStores
    /\ now = 1
    /\ last = NoCall
    /\ InitQB /\ qb.realm /\ InitGH /\ InitSync /\ sync.all

SpecReport == ReportInit /\ [][NextReport]_vars

\* Two loaders, each called once, their store calls in any order.
NextConcurrent ==
    \/ \E p \in {1, 2} : LoaderCall(p)
    \/ \E p \in {1, 2} : LoaderBulkUpsert(p)
    \/ \E p \in {1, 2} : LoaderInsert(p)
    \/ \E p \in {1, 2} : LoaderUpdate(p)
    \/ \E p \in {1, 2} : LoaderUpsert(p)

ConcurrentInit ==
    /\ db = [EmptyStore EXCEPT !["quickbooks_invoices"] = Stamp(<<Invoice(1, 100)>>, 0)]
    /\ now = 1
    /\ last = NoCall
    /\ InitReport /\ InitQB /\ qb.realm /\ InitGH /\ InitSync /\ sync.all

SpecConcurrent == ConcurrentInit /\ [][NextConcurrent]_vars

----------------------------------------------------------------------------
(* Claims about the loader *)

\* the natural key of each entity (data model)
NaturalKey(tbl) ==
    CASE tbl = "mercury_accounts"     -> {"account_id"}
      [] tbl = "mercury_transactions" -> {"transaction_id"}
      [] tbl = "quickbooks_invoices"  -> {"invoice_id"}
      [] tbl = "quickbooks_payments"  -> {"payment_id"}
      [] tbl = "github_commits"       -> {"commit_sha"}
      [] tbl = "github_pull_requests" -> {"pr_number", "repository"}

TableOf(op) ==
    CASE op = "load_mercury_accounts"     -> "mercury_accounts"
      [] op = "load_mercury_transactions" -> "mercury_transactions"
      [] op = "load_quickbooks_invoices"  -> "quickbooks_invoices"
      [] op = "load_quickbooks_payments"  -> "quickbooks_payments"
      [] op = "load_github_commits"       -> "github_commits"
      [] op = "load_github_pull_requests" -> "github_pull_requests"

WithoutSyncedAt(r) == [f \in DOMAIN r \ {"synced_at"} |-> r[f]]

Rows(t) == {t[i] : i \in 1..Len(t)}

\* C1 as stated: a load that repeats the load before it (same operation, same
\* batch, no store fault in either) leaves every table with the same rows, all
\* field values included, as the first load left it.
C1_ReloadLeavesRowsEqual ==
    [][last'.reload => db' = db]_vars

\* C1, amended: a load that repeats the load before it (same operation, same
\* batch, no store fault in either) leaves every table with the same number of
\* rows and, in every row, the same value in every field other than synced_at.
C1_ReloadIdempotentButSyncedAt ==
    [][last'.reload =>
        \A tbl \in Tables :
            /\ Len(db'[tbl]) = Len(db[tbl])
            /\ \A i \in 1..Len(db[tbl]) :
                  WithoutSyncedAt(db'[tbl][i]) = WithoutSyncedAt(db[tbl][i])]_vars

\* a batch with a duplicate key was reloaded through the pull-request fallback
C1_Witness ==
    /\ last.reload
    /\ last.op = "load_github_pull_requests"
    /\ last.path = "fallback"
    /\ last.returned = 2
    /\ Len(db["github_pull_requests"]) = 1

\* C2: after every load, each table holds at most one row per natural key, and
\* the load has left the natural key of every row that existed before it
\* unchanged (rows are never removed).
C2_OneRowPerKeyAndKeysKept ==
    [][\A tbl \in Tables :
          /\ Unique(db'[tbl], NaturalKey(tbl))
          /\ Len(db'[tbl]) >= Len(db[tbl])
          /\ \A i \in 1..Len(db[tbl]) :
                Proj(db'[tbl][i], NaturalKey(tbl)) = Proj(db[tbl][i], NaturalKey(tbl))]_vars

\* the fallback path ran an update while the table holds pull request 1 of two
\* repositories
C2_Witness ==
    /\ last.op = "load_github_pull_requests"
    /\ last.path = "fallback"
    /\ last.updCalls # {}
    /\ last.returned >= 1
    /\ Len(db["github_pull_requests"]) = 2

InvoiceExists(r) ==
    \E i \in 1..Len(db["quickbooks_invoices"]) :
        db["quickbooks_invoices"][i].invoice_id = r.invoice_id

\* C3: load_quickbooks_payments never raises; it goes through the whole batch
\* whatever fails; a payment is written exactly when its invoice exists and its
\* upsert met no other error; the return value is the number of payments
\* written, and the skipped count is the number of payments the store rejected
\* for a missing invoice. (Ten payments, three with a missing invoice: 7 and 3.)
C3_PaymentsPartialLoad ==
    last.op = "load_quickbooks_payments" =>
        LET b        == last.batch
            rows     == Stamp(b, last.stamp)
            faulted  == last.faults.first
            written  == {i \in 1..Len(b) : InvoiceExists(b[i]) /\ i \notin faulted}
            rejected == {i \in 1..Len(b) : ~InvoiceExists(b[i]) /\ i \notin faulted}
            latest(i) == \A j \in written : b[j].payment_id = b[i].payment_id => j <= i
        IN  /\ ~last.raised
            /\ last.returned = Cardinality(written)
            /\ last.skipped = Cardinality(rejected)
            /\ \A i \in written :
                  latest(i) => rows[i] \in Rows(db["quickbooks_payments"])
            /\ \A i \in 1..Len(b) \ written :
                  (\A j \in written : rows[j] # rows[i])
                      => rows[i] \notin Rows(db["quickbooks_payments"])

\* the example batch was loaded with invoice 1 present and invoice 2 missing
C3_Witness ==
    /\ last.op = "load_quickbooks_payments"
    /\ last.batch = ExamplePayments
    /\ last.returned = 7
    /\ last.skipped = 3
    /\ Len(db["quickbooks_payments"]) = 7

\* C4 as stated: a load that returns, returns the number of records of its
\* batch (here: a batch whose records have pairwise different natural keys)
\* that are in the table, with the values (stamp included) of the batch, when
\* it returns.
C4_ReturnsRecordsPresent ==
    (/\ last.op # "none"
     /\ ~last.raised
     /\ Unique(last.batch, NaturalKey(TableOf(last.op)))) =>
        last.returned =
            Cardinality({i \in 1..Len(last.batch) :
                Stamp(last.batch, last.stamp)[i] \in Rows(db[TableOf(last.op)])})

\* the natural keys present in a table
KeysIn(d, tbl) == {Proj(d[tbl][i], NaturalKey(tbl)) : i \in 1..Len(d[tbl])}

\* C23: no step of a run removes a natural key from any of the six tables,
\* and a row that a step changes keeps its natural key: a record is corrected
\* only by overwriting the row of its key.
C23_KeysOnlyGrow ==
    [][\A tbl \in Tables :
          /\ KeysIn(db, tbl) \subseteq KeysIn(db', tbl)
          /\ \A r \in {db[tbl][i] : i \in 1..Len(db[tbl])} :
                \/ \E i \in 1..Len(db'[tbl]) : db'[tbl][i] = r
                \/ \E i \in 1..Len(db'[tbl]) :
                      /\ Proj(db'[tbl][i], NaturalKey(tbl)) = Proj(r, NaturalKey(tbl))
                      /\ db'[tbl][i].synced_at = last'.stamp]_vars

\* account 1, loaded with account 2 by the first load, was overwritten by the
\* second load
C23_Witness ==
    /\ last.op = "load_mercury_accounts"
    /\ db["mercury_accounts"] = <<[account_id |-> 1, balance |-> 20, synced_at |-> 2],
                                   [account_id |-> 2, balance |-> 10, synced_at |-> 1]>>

\* C24: every row a load writes carries the synced_at stamp of that load and
\* is a record of its batch; the rows it does not write keep theirs, so that
\* the synced_at of a row is the time of the last load that wrote it, and no
\* row is without one.
C24_StampedAtLoad ==
    [][\A tbl \in Tables : \A i \in 1..Len(db'[tbl]) :
          LET row == db'[tbl][i]
          IN  /\ "synced_at" \in DOMAIN row
              /\ \/ i <= Len(db[tbl]) /\ db[tbl][i] = row
                 \/ /\ row.synced_at = now
                    /\ last'.stamp = now
                    /\ tbl = TableOf(last'.op)
                    /\ \E k \in 1..Len(last'.batch) :
                          last'.batch[k] = [f \in DOMAIN row \ {"synced_at"} |-> row[f]]]_vars

\* the second load went through the fallback and wrote one pull request
\* beside the pull request of the first load
C24_Witness ==
    /\ last.op = "load_github_pull_requests"
    /\ last.path = "fallback"
    /\ last.stamp = 2
    /\ Len(db["github_pull_requests"]) = 2
    /\ db["github_pull_requests"][1].synced_at = 1
    /\ db["github_pull_requests"][2].synced_at = 2

\* the (sha, repository) pairs of the rows of the commits table
CommitPairs(d) ==
    {Proj(d["github_commits"][i], {"commit_sha", "repository"})
        : i \in 1..Len(d["github_commits"])}

\* C25 as stated: a load of commits that the environment does not fault does
\* not raise, and after it the commits table has a row for every (sha,
\* repository) pair of the batch and of the rows it held before.
C25_OneRowPerCommitPerRepository ==
    [][(last'.op = "load_github_commits" /\ last'.faults = NoFaults) =>
          /\ ~last'.raised
          /\ CommitPairs(db) \subseteq CommitPairs(db')
          /\ \A k \in 1..Len(last'.batch) :
                Proj(last'.batch[k], {"commit_sha", "repository"}) \in CommitPairs(db')]_vars

----------------------------------------------------------------------------
(* Claims about the QuickBooksExtractor *)

DataCalls == {"get_invoices", "get_payments", "get_company_info"}

\* C6 A refresh that fails is raised to the caller of the call that made it,
\* in the constructor and in each of the three data calls, so that the call
\* does not return a result.
C6_RefreshFailureRaised ==
    (qbLast.tried /\ ~qbLast.refreshed) => qbLast.raised

\* C7 as stated: a request is sent only after a refresh, or with a credential
\* that had more than 300 seconds left at the pre-call check.
C7_NoRequestWithin300 ==
    (qbLast.op \in DataCalls /\ qbLast.sent) =>
        (qbLast.refreshed \/ qbLast.remaining > SafetyMargin)

\* C7 amended: a data call whose credential has less than 300 seconds left
\* (or has expired) at the pre-call check tries a refresh first, and a request
\* is sent only after a refresh that succeeded or with a credential that had
\* 300 seconds or more left at the check.
C7_RefreshWhenLessThan300 ==
    qbLast.op \in DataCalls =>
        /\ (qb.realm /\ qbLast.remaining < SafetyMargin) => qbLast.tried
        /\ qbLast.sent => (qbLast.refreshed \/ qbLast.remaining >= SafetyMargin)

C7_Witness ==
    /\ qbLast.op \in DataCalls
    /\ qbLast.remaining < SafetyMargin
    /\ qbLast.refreshed
    /\ qbLast.sent
    /\ qbLast.sentAccess = idp.issued

\* C8 One extractor object holds the refresh credential the token endpoint
\* returned last: every refresh sends the credential returned last before it,
\* and after a refresh that succeeded the credential held is the one returned.
C8_SingleRefreshCredential ==
    /\ qbLast.tried => qbLast.refreshSent = qbLast.latest
    /\ qbLast.refreshed => qb.refresh_token = idp.latest
    /\ qb.state = "ready" => qb.refresh_token = idp.latest

C8_Witness ==
    /\ qbLast.op \in DataCalls
    /\ qbLast.refreshed
    /\ qbLast.refreshSent # ConfigRefreshToken
    /\ qb.refresh_token # qbLast.refreshSent

\* C29 as stated: the refresh a data call makes is all or nothing. When it
\* fails (an error status, a network error, a success answer that lacks a
\* field) the access token, the refresh token and the expiry held keep their
\* values; when it succeeds the three are replaced by those of the answer.
C29_RefreshAllOrNothing ==
    [][(qb.state = "ready" /\ clock' = clock /\ qbLast'.tried) =>
          IF qbLast'.refreshed
          THEN /\ qb'.access_token = idp'.issued
               /\ qb'.refresh_token = idp'.latest
               /\ qb'.token_expires_at > clock
          ELSE /\ qb'.access_token = qb.access_token
               /\ qb'.refresh_token = qb.refresh_token
               /\ qb'.token_expires_at = qb.token_expires_at]_vars

----------------------------------------------------------------------------
(* Claims about the GitHubExtractor *)

\* C9 Whatever the server answers, the fetch of one repository makes at most
\* 3 requests, the repository listing makes at most 10 iterations, no request
\* follows an empty page of the same loop, and every call returns.
C9_PaginationBounded ==
    /\ [](gh.requests <= 3 /\ gh.iters <= 10 /\ ~gh.afterEmpty)
    /\ (gh.phase \in {"repos", "items"}) ~> (gh.phase = "done")

C9_Witness ==
    /\ gh.op = "get_org_repos"
    /\ gh.phase = "done"
    /\ gh.iters = 10
    /\ Len(gh.result) = 10

RECURSIVE Flatten(_)
Flatten(seqs) ==
    IF seqs = <<>> THEN <<>> ELSE Head(seqs) \o Flatten(Tail(seqs))

\* C10 When a fan-out returns, every repository of the listing has been
\* fetched, in the order of the listing; a repository that answered 'not
\* found' to the first request of its fetch contributed no record; and the
\* result is the concatenation of the results of the repositories in that
\* order.
C10_FanOutConcatenates ==
    (gh.op \in FanOutOps /\ gh.phase = "done") =>
        /\ gh.fetched = gh.repos
        /\ Len(gh.per) = Len(gh.repos)
        /\ \A i \in gh.missing : gh.per[i] = <<>>
        /\ \A i \in 1..Len(gh.per) : \A k \in 1..Len(gh.per[i]) :
               gh.per[i][k].repository = gh.repos[i]
        /\ gh.result = Flatten(gh.per)

C10_Witness ==
    /\ gh.op \in FanOutOps
    /\ gh.phase = "done"
    /\ Len(gh.repos) = 2
    /\ gh.missing = {1}
    /\ Len(gh.per[2]) = 3
    /\ gh.result = gh.per[2]

----------------------------------------------------------------------------
(* Claims about run_daily_sync *)

\* C5 A run raises only from the construction of the QuickBooksExtractor, the
\* one place where a broken authentication is raised: no source error and no
\* store failure in one of the six loads makes it raise.
C5_RaisesOnlyOnBrokenAuth ==
    sync.pc = "raised" => sync.raisedIn = "QuickBooksExtractor"

FetchSteps ==
    {"get_accounts", "get_transactions", "get_invoices", "get_payments",
     "get_commits", "get_pull_requests"}

\* C11 A fetch call of the run that meets a network timeout returns an empty
\* list (in a fan-out: the listing and every per-repository call that timed
\* out), and no fetch call makes the run raise: the run goes on with the
\* statement after it.
C11_TimeoutEndsOnlyTheCall ==
    /\ sync.fetch.timeout => sync.fetch.emptied
    /\ sync.raisedIn \notin FetchSteps
    /\ sync.fetch.step # "none" => sync.pc # sync.fetch.step

C11_Witness ==
    /\ sync.pc = "done"
    /\ sync.all
    /\ sync.allTimeouts
    /\ sync.fetch.step = "get_pull_requests"

\* the invoice ids of a batch of invoices
InvoiceIds(batch) == {batch[i].invoice_id : i \in 1..Len(batch)}

\* the payments of the batch whose upsert reached the store and whose invoice
\* is not among those the run extracted
Unreferenced(batch, faulted, invoices) ==
    {i \in 1..Len(batch) :
        i \notin faulted /\ batch[i].invoice_id \notin InvoiceIds(invoices)}

\* C27 In a run on an empty store no load starts before the six extraction
\* calls have returned, and the payments are loaded after the invoices: when
\* the payments load returns, every invoice the run extracted is in the store,
\* and the payments it skipped for a missing invoice are exactly those whose
\* invoice the run did not extract, so none whose invoice is in the run's
\* invoice batch is skipped.
C27_ExtractThenLoadInvoicesFirst ==
    /\ sync.pc \in FetchSteps \cup {"QuickBooksExtractor"} =>
           (db = EmptyStore /\ last = NoCall)
    /\ last # NoCall => sync.fetch.step = "get_pull_requests"
    /\ last.op = "load_quickbooks_payments" =>
           /\ InvoiceIds(db["quickbooks_invoices"]) = InvoiceIds(sync.qb_invoices)
           /\ last.batch = sync.qb_payments
           /\ last.skipped =
                  Cardinality(Unreferenced(last.batch, last.faults.first,
                                           sync.qb_invoices))

C27_Witness ==
    /\ last.op = "load_quickbooks_payments"
    /\ sync.qb_invoices = <<Invoice(1, 100)>>
    /\ sync.qb_payments = <<Payment(1, 1, 50), Payment(2, 2, 50)>>
    /\ last.faults = NoFaults
    /\ last.returned = 1
    /\ last.skipped = 1

----------------------------------------------------------------------------
(* Claims about the MetricsCalculator *)

\* the seconds from the midnight that begins the date start to the moment t
SecondsFrom(start, t) == (Ordinal(t.date) - Ordinal(start)) * 86400 + t.secs

\* t lies in the seven days that begin with the date start
InWeekOf(start, t) == 0 <= SecondsFrom(start, t) /\ SecondsFrom(start, t) < 7 * 86400

\* C12: for every week_start given as a date, week_end is the sixth day after
\* week_start, and the commit count and the merged count are the numbers of
\* commits and of merged pull requests stamped from the midnight that begins
\* week_start up to, and not including, the midnight that ends week_end; for
\* the week of 2024-03-04 week_end is 2024-03-10, a commit of
\* 2024-03-10T23:59:00 is counted and one of 2024-03-11T00:00:00 is not.
C12_WeekWindow ==
    (calc.op = "calculate_weekly_metrics" /\ calc.week_start # NoWeekStart) =>
        LET commits == calc.store["github_commits"]
            prs == calc.store["github_pull_requests"]
        IN  /\ calc.out.week_start = calc.week_start
            /\ Ordinal(calc.out.week_end) = Ordinal(calc.week_start) + 6
            /\ calc.out.developer_commits =
                   Cardinality({i \in 1..Len(commits) : InWeekOf(calc.week_start, commits[i].date)})
            /\ calc.out.prs_merged =
                   Cardinality({i \in 1..Len(prs) :
                       prs[i].state = "merged" /\ InWeekOf(calc.week_start, prs[i].merged_at)})
            /\ calc.week_start = <<2024, 3, 4>> =>
                   /\ calc.out.week_end = <<2024, 3, 10>>
                   /\ commits = <<MetricCommit(3, <<2024, 3, 10>>, 86340),
                                  MetricCommit(4, <<2024, 3, 11>>, 0)>>
                          => calc.out.developer_commits = 1
                   /\ commits = <<MetricCommit(3, <<2024, 3, 10>>, 86340)>>
                          => calc.out.developer_commits = 1
                   /\ commits = <<MetricCommit(4, <<2024, 3, 11>>, 0)>>
                          => calc.out.developer_commits = 0

\* the week of 2024-03-04 over a store with the two commits of the claim and
\* a pull request merged on each side of the end of the week
C12_Witness ==
    /\ calc.op = "calculate_weekly_metrics"
    /\ calc.week_start = <<2024, 3, 4>>
    /\ calc.store["github_commits"] = <<MetricCommit(3, <<2024, 3, 10>>, 86340),
                                        MetricCommit(4, <<2024, 3, 11>>, 0)>>
    /\ Len(calc.store["github_pull_requests"]) = 4
    /\ calc.out.week_end = <<2024, 3, 10>>
    /\ calc.out.developer_commits = 1
    /\ calc.out.prs_merged = 2

\* the seconds from the moment a to the moment b
Gap(a, b) == SecondsFrom(a.date, b) - a.secs

\* the balances of the accounts that satisfy a condition on their index, summed
BalanceOver(accounts, included(_)) ==
    Sum([i \in 1..Len(accounts) |-> IF included(i) THEN accounts[i].balance ELSE 0])

StampedAt5And20(accounts) ==
    /\ Len(accounts) = 3
    /\ Gap(accounts[1].synced_at, accounts[2].synced_at) = 5
    /\ Gap(accounts[1].synced_at, accounts[3].synced_at) = 20

\* C14 as stated: of accounts stamped T, T+5s and T+20s the current balance
\* is the sum of the first two.
C14_FirstTwoIncluded ==
    (calc.op = "get_current_balance" /\ StampedAt5And20(calc.accounts)) =>
        calc.out = calc.accounts[1].balance + calc.accounts[2].balance

\* C14: of accounts stamped T, T+5s and T+20s the current balance is the
\* balance of the third alone, the only one at most 10 seconds before the
\* most recent stamp T+20s.
C14_OnlyLatestIncluded ==
    (calc.op = "get_current_balance" /\ StampedAt5And20(calc.accounts)) =>
        calc.out = calc.accounts[3].balance

C14_Witness ==
    /\ calc.op = "get_current_balance"
    /\ StampedAt5And20(calc.accounts)
    /\ calc.out = 1000

\* C15: for every snapshot the collection rate is 0 when invoiced_amount is 0
\* and cash_collected / invoiced_amount x 100 otherwise, and computing it
\* does not raise.
C15_CollectionRateGuarded ==
    calc.op = "collection_rate" =>
        /\ ~calc.out.raised
        /\ calc.out.den # 0
        /\ calc.invoiced = 0 => calc.out.num = 0
        /\ calc.invoiced # 0 =>
               calc.out.num * calc.invoiced = calc.collected * 100 * calc.out.den

\* a snapshot of a week with cash collected and nothing invoiced
C15_Witness ==
    /\ calc.op = "collection_rate"
    /\ calc.invoiced = 0
    /\ calc.collected = 2500
    /\ calc.out = [raised |-> FALSE, num |-> 0, den |-> 1]

----------------------------------------------------------------------------
(* Claims about the extractors' derivations *)

\* the keywords of the bucket of a name
WordsOf(name) == (CHOOSE b \in {Buckets[k] : k \in 1..Len(Buckets)} : b.name = name).words

\* a keyword of the bucket occurs, whatever the case, in the note or in the
\* counterparty of the transaction
Occurs(name, transaction) ==
    \E k \in 1..Len(WordsOf(name)) :
        \/ Contains(Lower(OrEmpty(Get(transaction, "note"))), WordsOf(name)[k])
        \/ Contains(Lower(OrEmpty(Get(transaction, "counterpartyName"))), WordsOf(name)[k])

Precedence ==
    <<"Payroll", "Infrastructure", "Revenue", "Rent", "Contractors", "Marketing", "Software">>

\* C16: a transaction that has a category gets that category verbatim; any
\* other gets the first bucket, in the order Payroll, Infrastructure,
\* Revenue, Rent, Contractors, Marketing, Software, one of whose keywords
\* occurs case-insensitively in its note or counterparty, and "Other" when
\* there is none; a note with both "payroll" and "aws" gives "Payroll".
C16_CategoryPrecedence ==
    calc.op = "categorize_transaction" =>
        LET t == calc.transaction
        IN  IF "category" \in DOMAIN t THEN calc.out = t.category
            ELSE /\ \A k \in 1..Len(Precedence) :
                        calc.out = Precedence[k] <=>
                            /\ Occurs(Precedence[k], t)
                            /\ \A j \in 1..(k - 1) : ~Occurs(Precedence[j], t)
                 /\ calc.out = "Other" <=> \A k \in 1..Len(Precedence) : ~Occurs(Precedence[k], t)
                 /\ (Occurs("Payroll", t) /\ Occurs("Infrastructure", t)) => calc.out = "Payroll"

\* the note "Payroll AWS" of a transaction without a category
C16_Witness ==
    /\ calc.op = "categorize_transaction"
    /\ "category" \notin DOMAIN calc.transaction
    /\ Get(calc.transaction, "note") = <<"P", "a", "y", "r", "o", "l", "l", " ", "A", "W", "S">>
    /\ calc.out = "Payroll"

\* C17: the status of an invoice is "Paid" exactly when its balance is 0,
\* "Overdue" exactly when its balance is positive and the midnight that begins
\* its due date is past, and "Unpaid" when its balance is positive and its
\* due date is later or missing.
C17_InvoiceStatus ==
    calc.op = "get_invoice_status" =>
        LET balance == IF "Balance" \in DOMAIN calc.invoice THEN calc.invoice.Balance ELSE 0
            hasDue == "DueDate" \in DOMAIN calc.invoice /\ Len(calc.invoice.DueDate) = 3
            sinceDue == IF hasDue THEN SecondsFrom(calc.invoice.DueDate, calc.today) ELSE 0
        IN  /\ calc.out = "Paid" <=> balance = 0
            /\ calc.out = "Overdue" <=> (balance > 0 /\ hasDue /\ sinceDue > 0)
            /\ (balance > 0 /\ (~hasDue \/ sinceDue < 0)) => calc.out = "Unpaid"

\* an invoice with a balance that was due on the day the status is derived
C17_Witness ==
    /\ calc.op = "get_invoice_status"
    /\ calc.invoice = [Balance |-> 5000, DueDate |-> <<2024, 3, 13>>]
    /\ calc.today = DateTime(<<2024, 3, 13>>, 32400)
    /\ calc.out = "Overdue"

\* C28 Every record get_pull_requests returns has a state among open, closed
\* and merged, and its merged_at is not null exactly when its state is merged.
C28_MergedIffMergedAt ==
    calc.op = "get_pull_requests" =>
        \A i \in 1..Len(calc.out) :
            /\ calc.out[i].state \in {"open", "closed", "merged"}
            /\ calc.out[i].merged_at # Null <=> calc.out[i].state = "merged"

C28_Witness ==
    /\ calc.op = "get_pull_requests"
    /\ Len(calc.page) = 2 /\ Len(calc.out) = 2
    /\ calc.page[1].state = "closed" /\ Get(calc.page[1], "merged_at") = <<2024, 3, 5>>
    /\ calc.out[1].state = "merged" /\ calc.out[1].merged_at = <<2024, 3, 5>>
    /\ calc.page[2].state = "closed" /\ Get(calc.page[2], "merged_at") = Null
    /\ calc.out[2].state = "closed" /\ calc.out[2].merged_at = Null

----------------------------------------------------------------------------
(* Claims about run_weekly_report *)

\* C18: a row of weekly_metrics, once written, is in the table unchanged
\* after every later step of a report run or of a sync.
C18_RowsNeverModified ==
    [][\A i \in 1..Len(wm) : i <= Len(wm') /\ wm'[i] = wm[i]]_vars

\* a second run of the same week has written its row beside the row of the
\* first, after a sync changed the store
C18_Witness ==
    /\ Len(wm) = 2
    /\ wm[1].week_start = wm[2].week_start
    /\ wm[1] # wm[2]
    /\ rep.synced
    /\ rep.runs = 2

\* the week_start of no two rows is the same
OneRowPerWeek ==
    \A i, j \in 1..Len(wm) : wm[i].week_start = wm[j].week_start => i = j

\* C19 as stated: after the report has run twice for one week over a store
\* no sync changed, weekly_metrics holds one row of that week, as after the
\* first run, and the second run has not failed.
C19_SecondRunLeavesOneRow ==
    (~rep.synced /\ rep.runs >= 1) => (OneRowPerWeek /\ rep.pc # "failed")

\* the snapshot the running process calculated
Calculated == CalculateWeeklyMetrics(db, NoWeekStart, rep.clock)

\* C20: the row save_weekly_metrics writes has exactly the fields of the
\* snapshot other than prs_by_author and recent_transactions, with the values
\* of the snapshot, and the snapshot in memory is the calculated one after
\* the save: the notifier is handed the snapshot with its author breakdown
\* and its transaction list.
C20_SavesScalarsKeepsSnapshot ==
    /\ rep.pc \in {"notify", "done"} =>
           LET row == wm[Len(wm)]
           IN  /\ DOMAIN row = DOMAIN Calculated \ {"prs_by_author", "recent_transactions"}
               /\ \A k \in DOMAIN row : row[k] = Calculated[k]
               /\ rep.metrics = Calculated
    /\ rep.pc = "failed" => rep.metrics = Calculated
    /\ rep.pc = "done" =>
           /\ rep.handed = Calculated
           /\ {"prs_by_author", "recent_transactions"} \subseteq DOMAIN rep.handed

\* a report of the week of 2024-03-04 over a store with merged pull requests
\* and transactions has saved its row and notified
C20_Witness ==
    /\ rep.pc = "done"
    /\ rep.handed.week_start = <<2024, 3, 4>>
    /\ DOMAIN rep.handed.prs_by_author = {"ana"}
    /\ rep.handed.prs_by_author["ana"] = 2
    /\ Len(rep.handed.recent_transactions) = 1
    /\ "prs_by_author" \notin DOMAIN wm[Len(wm)]
    /\ wm[Len(wm)].prs_merged = 2

\* C21 as stated: send_weekly_report, the primary webhook configured, posts
\* to every configured destination, whatever the posts to the other
\* destinations did.
C21_EveryDestinationAttempted ==
    (rep.sent /\ Webhooks[1] \in rep.webhooks) => rep.attempted = rep.webhooks

----------------------------------------------------------------------------
(* Claims about concurrent runs *)

ConcurrentTables == {"github_pull_requests", "quickbooks_payments"}

\* the payments of a batch whose invoice the store has
Referencing(rows) ==
    {i \in 1..Len(rows) : "invoice_id" \in DOMAIN rows[i] =>
        \E k \in 1..Len(db["quickbooks_invoices"]) :
            db["quickbooks_invoices"][k].invoice_id = rows[i].invoice_id}

\* C22: of two loads whose store calls interleave neither raises, and without
\* a fault of the environment each loads every record of its batch that
\* references a stored invoice; at every moment each table has at most one
\* row per natural key, and that row is the record the last successful write
\* of the key wrote.
C22_ConcurrentLoadsLastWriteWins ==
    /\ \A p \in {1, 2} :
          /\ ~con.proc[p].raised
          /\ (con.proc[p].pc = "done" /\ ~con.proc[p].faulted) =>
                 con.proc[p].loaded = Cardinality(Referencing(con.proc[p].rows))
    /\ \A tbl \in ConcurrentTables :
          /\ Unique(db[tbl], Constraint(tbl))
          /\ {db[tbl][i] : i \in 1..Len(db[tbl])} = con.written[tbl]

\* both loaders went through the fallback for the same pull request, the
\* second insert met the row of the first, and the update of the loader that
\* stamped first was the last write
C22_Witness ==
    /\ \A p \in {1, 2} :
          /\ con.proc[p].pc = "done"
          /\ con.proc[p].op = "load_github_pull_requests"
          /\ con.proc[p].loaded = 1
    /\ con.proc[1].rows = Stamp(<<PullRequest(1, "a", "t1")>>, 1)
    /\ con.proc[2].rows = Stamp(<<PullRequest(1, "a", "t2")>>, 2)
    /\ db["github_pull_requests"] = con.proc[1].rows

\* C26: in a report run the notifier is called only when the snapshot of the
\* run is in weekly_metrics, it is handed the snapshot calculated in this run
\* with every field, and a run whose save raised has called no notifier; the
\* snapshot is calculated before it is saved.
C26_ComputePersistNotify ==
    /\ rep.pc = "idle" => (rep.metrics = NoMetrics /\ ~rep.sent)
    /\ rep.pc \in {"save", "failed"} =>
           (rep.metrics = Calculated /\ ~rep.sent /\ rep.attempted = {})
    /\ rep.pc = "failed" => rep.raised
    /\ rep.pc \in {"notify", "done", "undelivered"} => ~rep.raised
    /\ rep.sent =>
           /\ rep.pc \in {"done", "undelivered"}
           /\ ~rep.raised
           /\ rep.handed = Calculated
           /\ wm # <<>> /\ wm[Len(wm)] = DbMetrics(rep.handed)

\* the second run of a week found the row of the first in a table keyed by
\* week_start: its save raised and it posted to no webhook
C26_Witness ==
    /\ rep.pc = "failed"
    /\ rep.runs = 1
    /\ Len(wm) = 1
    /\ wm[1].week_start = rep.metrics.week_start
    /\ ~rep.sent
    /\ rep.webhooks = {1, 2, 3}

----------------------------------------------------------------------------
(* Claims about the payments of QuickBooks *)

\* the positions of rows that belong to the source payment pmt
RowsOf(rows, pmt) == {i \in 1..Len(rows) : rows[i].payment_id[2] = pmt.Id}

\* C30 as stated, for a load in which no store call failed and no payment
\* was skipped: a source payment whose lines link to n invoices gives n
\* records, their payment_id pairwise distinct, each with the amount
\* TotalAmt / n; the amounts stored for it sum to TotalAmt when n >= 1; and a
\* payment without a linked invoice gives no record.
C30_EvenSplitSumsToTotal ==
    (/\ last.op = "load_quickbooks_payments"
     /\ last.faults = NoFaults
     /\ last.skipped = 0) =>
        \A k \in 1..Len(calc.source) :
            LET pmt  == calc.source[k]
                n    == Len(LinkedInvoiceIds(pmt))
                recs == RowsOf(calc.out, pmt)
                rows == RowsOf(db["quickbooks_payments"], pmt)
            IN  /\ Cardinality(recs) = n
                /\ \A i, j \in recs :
                       calc.out[i].payment_id = calc.out[j].payment_id => i = j
                /\ \A i \in recs : calc.out[i].amount = Quotient(TotalAmt(pmt), n)
                /\ n >= 1 => Cardinality(rows) * TotalAmt(pmt) = TotalAmt(pmt) * n

====
